---- MODULE Spec2Model ----
(***************************************************************************)
(* A model of openfresh/external-ips: the controller tick (RunOnce), the   *)
(* DNS plan engine, the TXT ownership registry, the firewall plan engine    *)
(* and the AWS firewall provider's apply schedule.                          *)
(*                                                                         *)
(* Strings that the code cuts or joins character by character (DNS names,  *)
(* the TXT prefix) are sequences of one-character strings; strings that    *)
(* are only compared or concatenated are TLA+ strings.                     *)
(***************************************************************************)
EXTENDS Integers, Sequences, FiniteSets, TLC

VARIABLES
    \* ---- DNS side
    zone,          \* the records the DNS provider returns from Records()
    prefix,        \* TXTRegistry.mapper.prefix
    cacheOn,       \* TXTRegistry.cacheInterval > 0
    recordsCache,  \* TXTRegistry.recordsCache: [set, eps, fresh], set FALSE
                   \* for nil, fresh while time.Since(recordsCacheRefreshTime)
                   \* is below cacheInterval
    records,       \* the result of Registry.Records() of this tick
    desired,       \* setting.Endpoints of this tick
    policy,        \* Controller.Policy
    dnsChanges,    \* plan.Changes computed by the DNS Plan.Calculate
    forwarded,     \* the provider.ApplyChanges call of this tick: <<>>, or
                   \* <<[changes, err]>> with the changes handed over and the
                   \* error the provider returned
    dnsErr,        \* the error the registry returned in this tick, "" for nil
    tick,          \* number of the tick
    dnspc,         \* position of the DNS read / plan / apply sequence
    \* ---- firewall side
    fwCurrent,     \* the rule-sets FwRegistry.Rules() returned
    fwDesired,     \* setting.InboundRules
    fwChanges,     \* firewall plan.Changes
    fwPlanned,     \* fwChanges came out of the firewall Plan.Calculate
    sgroups,       \* the security groups at EC2: name -> [perms, tagged]
    sgBound,       \* <<providerID, group name>> pairs: instance carries group
    fwOps,         \* the changes ApplyChanges has come to ("Desired change")
    fwpc,          \* position inside AWSProvider.ApplyChanges
    fwIdx,         \* index of the next item of the current phase
    fwErr,         \* ApplyChanges returned an error
    dryRun,        \* the dry-run flag
    \* ---- controller and source side
    services,      \* the services of the cluster, as the API lists them
    nodes,         \* the nodes of the cluster, as the API lists them
    calls,         \* the calls RunOnce has made in this tick, with their errors
    runErr,        \* what RunOnce returned, "" for nil
    runpc,         \* position inside Controller.RunOnce and Controller.Run
    stopChan,      \* "" while open; once closed, where RunOnce was at the close
    logged,        \* the errors Controller.Run has logged
    \* ---- service external IPs side
    eipCurrent,    \* the ExtIPs the ExtIP registry returned
    eipDesired,    \* setting.ExtIPs
    eipChanges,    \* ExtIP plan.Changes
    eippc          \* position of the ExtIP read / plan sequence

dnsVars == <<zone, prefix, cacheOn, recordsCache, records, desired, policy,
             dnsChanges, forwarded, dnsErr, tick, dnspc>>
fwVars == <<fwCurrent, fwDesired, fwChanges, fwPlanned, sgroups, sgBound,
            fwOps, fwpc, fwIdx, fwErr, dryRun>>
ctlVars == <<services, nodes, calls, runErr, runpc, stopChan, logged>>
eipVars == <<eipCurrent, eipDesired, eipChanges, eippc>>
vars == <<dnsVars, fwVars, ctlVars, eipVars>>

\* a nil slice
NilCache == [set |-> FALSE, eps |-> <<>>, fresh |-> FALSE]

\* a call to a port, a provider or the cluster, and the error it returned
Call(name, arg, err) == [call |-> name, arg |-> arg, err |-> err]

(***************************************************************************)
(* Bounds of the model.                                                    *)
(***************************************************************************)
MaxLen == 2

(***************************************************************************)
(* Generic helpers.                                                        *)
(***************************************************************************)
Range(s) == {s[i] : i \in 1..Len(s)}

\* all sequences over S of length at most n
SeqsUpTo(S, n) == UNION {[1..k -> S] : k \in 0..n}

\* all orders in which a Go map with key set K can be iterated
Orders(K) == {o \in [1..Cardinality(K) -> K] : Range(o) = K}

RECURSIVE SelectIdx(_, _, _)
\* the indices i of s, ascending, with keep[i]; as a sequence
SelectIdx(n, keep, i) ==
    IF i > n THEN <<>>
    ELSE IF keep[i] THEN <<i>> \o SelectIdx(n, keep, i + 1)
    ELSE SelectIdx(n, keep, i + 1)

\* the subsequence of s of the elements s[i] with keep[i], in order
Filter(s, keep) ==
    LET idx == SelectIdx(Len(s), keep, 1)
    IN  [k \in 1..Len(idx) |-> s[idx[k]]]

\* how often x occurs in s
Count(s, x) == Cardinality({i \in 1..Len(s) : s[i] = x})

(***************************************************************************)
(* endpoint package (value types of the DNS side).                         *)
(***************************************************************************)
OwnerLabelKey == "owner"
ResourceLabelKey == "resource"
RecordTypeA == "A"
RecordTypeCNAME == "CNAME"
RecordTypeTXT == "TXT"

\* Labels is map[string]string: a function on a subset of the keys.
NewLabels == [k \in {} |-> ""]

\* a Go map read: the zero value for a missing key
Label(labels, k) == IF k \in DOMAIN labels THEN labels[k] ELSE ""

\* a Go map write
SetLabel(labels, k, v) ==
    [x \in DOMAIN labels \cup {k} |-> IF x = k THEN v ELSE labels[x]]

Endpoint(name, type, targets, ttl, labels) ==
    [DNSName |-> name, RecordType |-> type, Targets |-> targets,
     RecordTTL |-> ttl, Labels |-> labels]

\* endpoint.NewEndpoint: no TTL, fresh labels
NewEndpoint(name, type, target) ==
    Endpoint(name, type, <<target>>, 0, NewLabels)

\* TTL.IsConfigured
IsConfigured(ttl) == ttl > 0

\* Targets.Same: equal as collections, whatever the order
TargetsSame(t, o) ==
    /\ Len(t) = Len(o)
    /\ \A x \in Range(t) \cup Range(o) : Count(t, x) = Count(o, x)

\* the lexicographic order of the target strings of the model
TargetRank(s) ==
    CASE s = "10.0.0.1" -> 1
      [] s = "10.0.0.2" -> 2
      [] s = "10.0.0.3" -> 3
      [] s = "172.16.0.1" -> 4
      [] s = "172.16.0.2" -> 5
      [] OTHER -> 6

\* the lexicographic order of the resource labels of the model
ResourceRank(s) ==
    CASE s = "" -> 0
      [] s = "service/default/a" -> 1
      [] s = "service/default/b" -> 2
      [] OTHER -> 3

(***************************************************************************)
(* DNS plan engine (dns/plan).                                             *)
(***************************************************************************)
\* strings.ToLower on one character
ToLowerChar(c) ==
    CASE c = "F" -> "f"
      [] c = "B" -> "b"
      [] c = "T" -> "t"
      [] OTHER -> c

ToLower(name) == [i \in 1..Len(name) |-> ToLowerChar(name[i])]

RECURSIVE TrimLeft(_)
TrimLeft(name) ==
    IF Len(name) > 0 /\ Head(name) = " " THEN TrimLeft(Tail(name)) ELSE name

RECURSIVE TrimRight(_)
TrimRight(name) ==
    IF Len(name) > 0 /\ name[Len(name)] = " "
    THEN TrimRight(SubSeq(name, 1, Len(name) - 1))
    ELSE name

\* strings.TrimSpace
TrimSpace(name) == TrimRight(TrimLeft(name))

\* a sanitizeDNSName that trims and keeps the case
sanitizeDNSNameTrimmed(dnsName) == TrimSpace(dnsName)

sanitizeDNSName(dnsName) == TrimSpace(ToLower(dnsName))

\* x.Targets is less than y.Targets: by the first target value
TargetsLess(x, y) == TargetRank(x.Targets[1]) < TargetRank(y.Targets[1])

RECURSIVE MinByTarget(_)
\* the candidate with the smallest first target; the earliest among equals
MinByTarget(cands) ==
    IF Len(cands) = 1 THEN cands[1]
    ELSE LET m == MinByTarget(Tail(cands))
         IN  IF TargetsLess(m, cands[1]) THEN m ELSE cands[1]

ResourceOf(e) == Label(e.Labels, ResourceLabelKey)

\* PerResource.ResolveCreate: among the candidates of the lowest resource
\* identifier, the one with the smallest first target
ResolveCreate(candidates) ==
    LET lowest == CHOOSE r \in {ResourceOf(c) : c \in Range(candidates)} :
                      \A c \in Range(candidates) :
                          ResourceRank(r) <= ResourceRank(ResourceOf(c))
        IsLowest(c) == ResourceOf(c) = lowest
    IN  MinByTarget(Filter(candidates, [i \in 1..Len(candidates) |-> IsLowest(candidates[i])]))

\* PerResource.ResolveUpdate: the candidate of the resource that holds the
\* name now (the smallest target when it has several), else the smallest
\* target of all
ResolveUpdate(current, candidates) ==
    LET SameResource(c) == ResourceOf(c) = ResourceOf(current)
        mine == Filter(candidates, [i \in 1..Len(candidates) |-> SameResource(candidates[i])])
    IN  IF Len(mine) > 0 THEN MinByTarget(mine) ELSE MinByTarget(candidates)

\* planTable after addCurrent for every current and addCandidate for every
\* desired endpoint: sanitized name -> row
RowKeys(current, desiredEps) ==
    {sanitizeDNSName(e.DNSName) : e \in Range(current) \cup Range(desiredEps)}

\* addCurrent overwrites row.current: the last current endpoint of the name
\* (<<e>>), or <<>> for a nil pointer
RowCurrent(current, k) ==
    LET idx == {i \in 1..Len(current) : sanitizeDNSName(current[i].DNSName) = k}
    IN  IF idx = {} THEN <<>>
        ELSE <<current[CHOOSE i \in idx : \A j \in idx : j <= i]>>

\* addCandidate appends: the desired endpoints of the name, in order
RowCandidates(desiredEps, k) ==
    LET HasKey(e) == sanitizeDNSName(e.DNSName) = k
    IN  Filter(desiredEps, [i \in 1..Len(desiredEps) |-> HasKey(desiredEps[i])])

planTable(current, desiredEps) ==
    [k \in RowKeys(current, desiredEps) |->
        [current |-> RowCurrent(current, k),
         candidates |-> RowCandidates(desiredEps, k)]]

\* a targetChanged that compares the target lists position by position
targetChangedOrdered(des, cur) == des.Targets # cur.Targets

targetChanged(des, cur) == ~TargetsSame(des.Targets, cur.Targets)

shouldUpdateTTL(des, cur) ==
    IF ~IsConfigured(des.RecordTTL) THEN FALSE
    ELSE des.RecordTTL # cur.RecordTTL

\* an inheritOwner that leaves the labels of to as they are
inheritOwnerKept(from, to) == to

\* inheritOwner(from, to): to with from's owner label
inheritOwner(from, to) ==
    [to EXCEPT !.Labels =
        SetLabel(to.Labels, OwnerLabelKey, Label(from.Labels, OwnerLabelKey))]

\* a getUpdates that emits a pair for every taken name that is wanted
RowNeedsUpdateTaken(row) ==
    /\ row.current # <<>>
    /\ Len(row.candidates) > 0

\* whether getUpdates emits a pair for the row
RowNeedsUpdate(row) ==
    /\ row.current # <<>>
    /\ Len(row.candidates) > 0
    /\ LET update == ResolveUpdate(row.current[1], row.candidates)
       IN  shouldUpdateTTL(update, row.current[1])
               \/ targetChanged(update, row.current[1])

\* planTable.getUpdates, the rows visited in the given order
getUpdatesNew(t, order) ==
    LET Needs(k) == RowNeedsUpdate(t[k])
        ks == Filter(order, [i \in 1..Len(order) |-> Needs(order[i])])
    IN  [i \in 1..Len(ks) |->
            inheritOwner(t[ks[i]].current[1],
                         ResolveUpdate(t[ks[i]].current[1],
                                       t[ks[i]].candidates))]

getUpdatesOld(t, order) ==
    LET Needs(k) == RowNeedsUpdate(t[k])
        ks == Filter(order, [i \in 1..Len(order) |-> Needs(order[i])])
    IN  [i \in 1..Len(ks) |-> t[ks[i]].current[1]]

\* a getCreates that creates for every row with a candidate, taken or not
getCreatesTaken(t, order) ==
    LET Wanted(k) == Len(t[k].candidates) > 0
        ks == Filter(order, [i \in 1..Len(order) |-> Wanted(order[i])])
    IN  [i \in 1..Len(ks) |-> ResolveCreate(t[ks[i]].candidates)]

\* planTable.getCreates
getCreates(t, order) ==
    LET Free(k) == t[k].current = <<>>
        ks == Filter(order, [i \in 1..Len(order) |-> Free(order[i])])
    IN  [i \in 1..Len(ks) |-> ResolveCreate(t[ks[i]].candidates)]

\* a getDeletes that does not look at the candidates of the row
getDeletesTaken(t, order) ==
    LET Taken(k) == t[k].current # <<>>
        ks == Filter(order, [i \in 1..Len(order) |-> Taken(order[i])])
    IN  [i \in 1..Len(ks) |-> t[ks[i]].current[1]]

\* planTable.getDeletes
getDeletes(t, order) ==
    LET Gone(k) == t[k].current # <<>> /\ Len(t[k].candidates) = 0
        ks == Filter(order, [i \in 1..Len(order) |-> Gone(order[i])])
    IN  [i \in 1..Len(ks) |-> t[ks[i]].current[1]]

NoChanges == [Create |-> <<>>, UpdateOld |-> <<>>, UpdateNew |-> <<>>,
              Delete |-> <<>>]

SyncPolicy == "sync"
UpsertOnlyPolicy == "upsert-only"
Policies == {SyncPolicy, UpsertOnlyPolicy}

\* Policy.Apply
PolicyApply(pol, changes) ==
    IF pol = UpsertOnlyPolicy THEN [changes EXCEPT !.Delete = <<>>]
    ELSE changes

\* The diff of Plan.Calculate before the policies run. The three range
\* loops over the rows map (getCreates, getDeletes, getUpdates) each run in
\* an order of their own: every list is taken from the lists its loop can
\* build.
PlanDiff(current, desiredEps) ==
    LET K == RowKeys(current, desiredEps)
        rows == planTable(current, desiredEps)
        t == [k \in K |-> [current |-> rows[k].current,
                           candidates |-> rows[k].candidates]]
        os == Orders(K)
    IN  {[Create |-> c, Delete |-> d, UpdateNew |-> u[1], UpdateOld |-> u[2]] :
            c \in {getCreates(t, o) : o \in os},
            d \in {getDeletes(t, o) : o \in os},
            u \in {<<getUpdatesNew(t, o), getUpdatesOld(t, o)>> : o \in os}}

\* a Calculate that never runs its policies
CalculateNoPolicy(current, desiredEps, pol) == PlanDiff(current, desiredEps)

\* Plan.Calculate: every Changes it can return under the policy
Calculate(current, desiredEps, pol) ==
    {PolicyApply(pol, c) : c \in PlanDiff(current, desiredEps)}

(***************************************************************************)
(* Inputs of the DNS plan engine.                                          *)
(***************************************************************************)
ResA == "service/default/a"
ResB == "service/default/b"
OwnerMe == "me"
OwnerOther == "other"

LabelsOf(owner, resource) ==
    [k \in {OwnerLabelKey, ResourceLabelKey} |->
        IF k = OwnerLabelKey THEN owner ELSE resource]

ResourceOnly(resource) == [k \in {ResourceLabelKey} |-> resource]

\* endpoints as the plan tests build them: two names (one of them also
\* written with upper case and blanks), one or two targets in both orders,
\* TTLs unset and set, labels present and absent
PlanPool ==
    { Endpoint(<<"f">>, RecordTypeA, <<"10.0.0.1">>, 0, LabelsOf(OwnerMe, ResA)),
      Endpoint(<<" ", "F">>, RecordTypeA, <<"10.0.0.2">>, 0, NewLabels),
      Endpoint(<<"f">>, RecordTypeA, <<"10.0.0.3">>, 0, LabelsOf(OwnerMe, ResA)),
      Endpoint(<<"F", " ">>, RecordTypeA, <<"10.0.0.1">>, 0, LabelsOf(OwnerMe, ResA)),
      Endpoint(<<"b">>, RecordTypeA, <<"10.0.0.1", "10.0.0.2">>, 0,
               ResourceOnly(ResB)),
      Endpoint(<<"b">>, RecordTypeA, <<"10.0.0.2", "10.0.0.1">>, 300,
               ResourceOnly(ResB)) }

(***************************************************************************)
(* Firewall plan engine (firewall/plan) and inbound rules.                 *)
(***************************************************************************)
InboundRule(protocol, port) == [Protocol |-> protocol, Port |-> port]

InboundRules(name, rules, providerIDs) ==
    [Name |-> name, Rules |-> rules, ProviderIDs |-> providerIDs]

InstanceRule(providerID, rulesName) ==
    [ProviderID |-> providerID, RulesName |-> rulesName]

\* InboundRules.Same: the rule lists agree position by position
InboundRulesSame(ir, o) ==
    /\ Len(ir.Rules) = Len(o.Rules)
    /\ \A i \in 1..Len(ir.Rules) :
           /\ ir.Rules[i].Protocol = o.Rules[i].Protocol
           /\ ir.Rules[i].Port = o.Rules[i].Port

\* the last element s[i] with keep[i] as <<s[i]>>, or <<>> (a nil pointer):
\* what repeated assignment to one map entry leaves
LastOf(s, keep) ==
    LET idx == {i \in 1..Len(s) : keep[i]}
    IN  IF idx = {} THEN <<>>
        ELSE <<s[CHOOSE i \in idx : \A j \in idx : j <= i]>>

RECURSIVE InstanceRulesOf(_)
\* the InstanceRule values Calculate builds from a list of rule-sets, in the
\* order of its two nested loops
InstanceRulesOf(rs) ==
    IF rs = <<>> THEN <<>>
    ELSE [i \in 1..Len(Head(rs).ProviderIDs) |->
             InstanceRule(Head(rs).ProviderIDs[i], Head(rs).Name)]
         \o InstanceRulesOf(Tail(rs))

\* the key of planTable2: the two strings joined with nothing in between
planTable2Key(i) == i.ProviderID \o i.RulesName

\* planTable after the addCurrent / addCandidate calls: name -> row
fwPlanTable(current, desiredRules) ==
    [k \in {r.Name : r \in Range(current) \cup Range(desiredRules)} |->
        [current |-> LastOf(current,
                            [i \in 1..Len(current) |-> current[i].Name = k]),
         candidate |-> LastOf(desiredRules,
                              [i \in 1..Len(desiredRules) |->
                                  desiredRules[i].Name = k])]]

\* planTable2 after the addCurrent / addCandidate calls: key -> row
fwPlanTable2(current, desiredRules) ==
    LET cur == InstanceRulesOf(current)
        des == InstanceRulesOf(desiredRules)
    IN  [k \in {planTable2Key(i) : i \in Range(cur) \cup Range(des)} |->
            [current |-> LastOf(cur,
                                [i \in 1..Len(cur) |-> planTable2Key(cur[i]) = k]),
             candidate |-> LastOf(des,
                                  [i \in 1..Len(des) |->
                                      planTable2Key(des[i]) = k])]]

\* whether planTable.getUpdates emits a pair for the row: the code compares
\* row.current with row.current
fwRowNeedsUpdate(row) ==
    /\ row.current # <<>>
    /\ row.candidate # <<>>
    /\ ~InboundRulesSame(row.current[1], row.current[1])

\* planTable.getUpdates, the rows visited in the given order
fwGetUpdatesNew(t, order) ==
    LET ks == Filter(order, [i \in 1..Len(order) |-> fwRowNeedsUpdate(t[order[i]])])
    IN  [i \in 1..Len(ks) |-> t[ks[i]].candidate[1]]

fwGetUpdatesOld(t, order) ==
    LET ks == Filter(order, [i \in 1..Len(order) |-> fwRowNeedsUpdate(t[order[i]])])
    IN  [i \in 1..Len(ks) |-> t[ks[i]].current[1]]

\* planTable.getCreates and planTable2.getSets: rows without a current
fwGetCreates(t, order) ==
    LET ks == Filter(order, [i \in 1..Len(order) |-> t[order[i]].current = <<>>])
    IN  [i \in 1..Len(ks) |-> t[ks[i]].candidate[1]]

\* planTable.getDeletes and planTable2.getUnsets: rows with a current and no
\* candidate
fwGetDeletes(t, order) ==
    LET ks == Filter(order, [i \in 1..Len(order) |->
                 t[order[i]].current # <<>> /\ t[order[i]].candidate = <<>>])
    IN  [i \in 1..Len(ks) |-> t[ks[i]].current[1]]

getSets(t2, order) == fwGetCreates(t2, order)

getUnsets(t2, order) == fwGetDeletes(t2, order)

\* firewall Plan.Calculate: every Changes it can return; each of the five
\* range loops over a map runs in an order of its own
FwCalculate(current, desiredRules) ==
    LET t == fwPlanTable(current, desiredRules)
        t2 == fwPlanTable2(current, desiredRules)
        os == Orders(DOMAIN t)
        os2 == Orders(DOMAIN t2)
    IN  {[Create |-> c, Delete |-> d, UpdateNew |-> u[1], UpdateOld |-> u[2],
          Set |-> st, Unset |-> un] :
            c \in {fwGetCreates(t, o) : o \in os},
            d \in {fwGetDeletes(t, o) : o \in os},
            u \in {<<fwGetUpdatesNew(t, o), fwGetUpdatesOld(t, o)>> : o \in os},
            st \in {getSets(t2, o) : o \in os2},
            un \in {getUnsets(t2, o) : o \in os2}}

(***************************************************************************)
(* The parts of the state a specification does not use.                    *)
(***************************************************************************)
\* no security group at all
NoGroups == [n \in {} |-> [perms |-> <<>>, tagged |-> FALSE]]

NoFwChanges == [Create |-> <<>>, UpdateOld |-> <<>>, UpdateNew |-> <<>>,
                Delete |-> <<>>, Set |-> <<>>, Unset |-> <<>>]

RegistryIdle ==
    /\ zone = <<>>
    /\ prefix = <<>>
    /\ cacheOn = FALSE
    /\ recordsCache = NilCache
    /\ forwarded = <<>>

DnsIdle ==
    /\ RegistryIdle
    /\ records = <<>>
    /\ desired = <<>>
    /\ policy = SyncPolicy
    /\ dnsChanges = NoChanges
    /\ dnsErr = ""
    /\ tick = 1
    /\ dnspc = "idle"

FwProviderIdle ==
    /\ fwCurrent = <<>>
    /\ fwDesired = <<>>
    /\ fwChanges = NoFwChanges
    /\ fwPlanned = FALSE
    /\ sgroups = NoGroups
    /\ sgBound = {}
    /\ fwOps = <<>>
    /\ fwpc = "idle"
    /\ fwIdx = 1
    /\ fwErr = FALSE

FwIdle ==
    /\ FwProviderIdle
    /\ dryRun = FALSE

CtlIdle ==
    /\ services = <<>>
    /\ nodes = <<>>
    /\ calls = <<>>
    /\ runErr = ""
    /\ runpc = "idle"
    /\ stopChan = ""
    /\ logged = <<>>

EipIdle ==
    /\ eipCurrent = <<>>
    /\ eipDesired = <<>>
    /\ eipChanges = [UpdateNew |-> <<>>, UpdateOld |-> <<>>]
    /\ eippc = "idle"

(***************************************************************************)
(* AWS firewall provider: ApplyChanges.                                     *)
(*                                                                         *)
(* EC2 is the pair (sgroups, sgBound). Every EC2 call may fail. The        *)
(* provider IDs of a tick have passed mapToAWSInstanceID in Rules(), so    *)
(* that call does not fail again in setSecurityGroups/unsetSecurityGroups. *)
(***************************************************************************)
FwOp(kind, name, id) == [kind |-> kind, name |-> name, id |-> id]

\* the order of the five calls of ApplyChanges
NextPhaseSetLast(pc) ==
    CASE pc = "create" -> "update"
      [] pc = "update" -> "unset"
      [] pc = "unset" -> "set"
      [] pc = "set" -> "delete"
      [] OTHER -> "done"

NextPhase(pc) ==
    CASE pc = "create" -> "update"
      [] pc = "update" -> "set"
      [] pc = "set" -> "unset"
      [] pc = "unset" -> "delete"
      [] OTHER -> "done"

\* a step of ApplyChanges returns an error: ApplyChanges returns it
FwFail ==
    /\ fwErr' = TRUE
    /\ fwpc' = "done"
    /\ fwIdx' = fwIdx

\* the loop of a step goes on to its next item
FwNextItem ==
    /\ fwIdx' = fwIdx + 1
    /\ UNCHANGED <<fwpc, fwErr>>

\* a step returns nil: ApplyChanges calls the next one
FwNextPhase ==
    /\ fwpc' = NextPhase(fwpc)
    /\ fwIdx' = 1
    /\ UNCHANGED fwErr

WithGroup(groups, name, perms, tagged) ==
    [n \in DOMAIN groups \cup {name} |->
        IF n = name THEN [perms |-> perms, tagged |-> tagged] ELSE groups[n]]

WithoutGroup(groups, name) == [n \in DOMAIN groups \ {name} |-> groups[n]]

fwFixed == <<fwCurrent, fwDesired, fwChanges, fwPlanned, dryRun>>

createSecurityGroups ==
    /\ fwpc = "create"
    /\ \/ /\ fwIdx <= Len(fwChanges.Create)
          /\ LET r == fwChanges.Create[fwIdx]
             IN  /\ fwOps' = Append(fwOps, FwOp("create", r.Name, ""))
                 /\ \/ dryRun /\ FwNextItem /\ UNCHANGED sgroups
                    \/ \* CreateSecurityGroup fails
                       ~dryRun /\ FwFail /\ UNCHANGED sgroups
                    \/ \* addInboundRules fails
                       /\ ~dryRun
                       /\ r.Name \notin DOMAIN sgroups
                       /\ sgroups' = WithGroup(sgroups, r.Name, <<>>, FALSE)
                       /\ FwFail
                    \/ /\ ~dryRun
                       /\ r.Name \notin DOMAIN sgroups
                       /\ sgroups' = WithGroup(sgroups, r.Name, r.Rules, FALSE)
                       /\ FwNextItem
       \/ \* the loop is over: CreateTags on the groups created
          /\ fwIdx > Len(fwChanges.Create)
          /\ UNCHANGED fwOps
          /\ \/ /\ dryRun \/ Len(fwChanges.Create) = 0
                /\ FwNextPhase
                /\ UNCHANGED sgroups
             \/ /\ ~dryRun /\ Len(fwChanges.Create) > 0
                /\ FwFail
                /\ UNCHANGED sgroups
             \/ /\ ~dryRun /\ Len(fwChanges.Create) > 0
                /\ sgroups' =
                       [n \in DOMAIN sgroups |->
                           IF n \in {c.Name : c \in Range(fwChanges.Create)}
                           THEN [sgroups[n] EXCEPT !.tagged = TRUE]
                           ELSE sgroups[n]]
                /\ FwNextPhase
    /\ UNCHANGED <<fwFixed, sgBound, dnsVars, ctlVars, eipVars>>

updateSecurityGroups ==
    /\ fwpc = "update"
    /\ \/ /\ fwIdx <= Len(fwChanges.UpdateNew)
          /\ LET r == fwChanges.UpdateNew[fwIdx]
             IN  \/ \* findSecurityGroup fails
                    FwFail /\ UNCHANGED <<fwOps, sgroups>>
                 \/ /\ r.Name \in DOMAIN sgroups
                    /\ fwOps' = Append(fwOps, FwOp("update", r.Name, ""))
                    /\ \/ dryRun /\ FwNextItem /\ UNCHANGED sgroups
                       \/ \* RevokeSecurityGroupIngress fails
                          ~dryRun /\ FwFail /\ UNCHANGED sgroups
                       \/ \* addInboundRules fails
                          /\ ~dryRun
                          /\ sgroups' = [sgroups EXCEPT ![r.Name].perms = <<>>]
                          /\ FwFail
                       \/ /\ ~dryRun
                          /\ sgroups' = [sgroups EXCEPT ![r.Name].perms = r.Rules]
                          /\ FwNextItem
       \/ /\ fwIdx > Len(fwChanges.UpdateNew)
          /\ FwNextPhase
          /\ UNCHANGED <<fwOps, sgroups>>
    /\ UNCHANGED <<fwFixed, sgBound, dnsVars, ctlVars, eipVars>>

setSecurityGroups ==
    /\ fwpc = "set"
    /\ \/ /\ fwIdx <= Len(fwChanges.Set)
          /\ LET r == fwChanges.Set[fwIdx]
             IN  \/ \* DescribeInstanceAttribute fails
                    FwFail /\ UNCHANGED <<fwOps, sgBound>>
                 \/ /\ fwOps' = Append(fwOps, FwOp("set", r.RulesName, r.ProviderID))
                    /\ \/ dryRun /\ FwNextItem /\ UNCHANGED sgBound
                       \/ \* findSecurityGroup or ModifyInstanceAttribute fails
                          ~dryRun /\ FwFail /\ UNCHANGED sgBound
                       \/ /\ ~dryRun
                          /\ r.RulesName \in DOMAIN sgroups
                          /\ sgBound' = sgBound \cup {<<r.ProviderID, r.RulesName>>}
                          /\ FwNextItem
       \/ /\ fwIdx > Len(fwChanges.Set)
          /\ FwNextPhase
          /\ UNCHANGED <<fwOps, sgBound>>
    /\ UNCHANGED <<fwFixed, sgroups, dnsVars, ctlVars, eipVars>>

unsetSecurityGroups ==
    /\ fwpc = "unset"
    /\ \/ /\ fwIdx <= Len(fwChanges.Unset)
          /\ LET r == fwChanges.Unset[fwIdx]
             IN  \/ \* DescribeInstanceAttribute fails
                    FwFail /\ UNCHANGED <<fwOps, sgBound>>
                 \/ /\ fwOps' = Append(fwOps, FwOp("unset", r.RulesName, r.ProviderID))
                    /\ \/ dryRun /\ FwNextItem /\ UNCHANGED sgBound
                       \/ \* findSecurityGroup or ModifyInstanceAttribute fails
                          ~dryRun /\ FwFail /\ UNCHANGED sgBound
                       \/ /\ ~dryRun
                          /\ r.RulesName \in DOMAIN sgroups
                          /\ sgBound' = sgBound \ {<<r.ProviderID, r.RulesName>>}
                          /\ FwNextItem
       \/ /\ fwIdx > Len(fwChanges.Unset)
          /\ FwNextPhase
          /\ UNCHANGED <<fwOps, sgBound>>
    /\ UNCHANGED <<fwFixed, sgroups, dnsVars, ctlVars, eipVars>>

deleteSecurityGroups ==
    /\ fwpc = "delete"
    /\ \/ /\ fwIdx <= Len(fwChanges.Delete)
          /\ LET r == fwChanges.Delete[fwIdx]
             IN  \/ \* findSecurityGroup fails
                    FwFail /\ UNCHANGED <<fwOps, sgroups>>
                 \/ /\ r.Name \in DOMAIN sgroups
                    /\ fwOps' = Append(fwOps, FwOp("delete", r.Name, ""))
                    /\ \/ dryRun /\ FwNextItem /\ UNCHANGED sgroups
                       \/ \* DeleteSecurityGroup fails
                          ~dryRun /\ FwFail /\ UNCHANGED sgroups
                       \/ /\ ~dryRun
                          /\ sgroups' = WithoutGroup(sgroups, r.Name)
                          /\ FwNextItem
       \/ /\ fwIdx > Len(fwChanges.Delete)
          /\ FwNextPhase
          /\ UNCHANGED <<fwOps, sgroups>>
    /\ UNCHANGED <<fwFixed, sgBound, dnsVars, ctlVars, eipVars>>

(***************************************************************************)
(* TXT registry (dns/registry): ownership through TXT records.             *)
(***************************************************************************)
\* Labels.Serialize(true): the heritage string of a label bag, keys sorted
Serialize(labels) ==
    "\"heritage=external-ips"
    \o (IF OwnerLabelKey \in DOMAIN labels
        THEN ",external-ips/owner=" \o labels[OwnerLabelKey] ELSE "")
    \o (IF ResourceLabelKey \in DOMAIN labels
        THEN ",external-ips/resource=" \o labels[ResourceLabelKey] ELSE "")
    \o "\""

\* the label bags of the model
LabelBags ==
    {l \in UNION {[K -> {OwnerMe, OwnerOther, ResA, ResB}] :
                     K \in SUBSET {OwnerLabelKey, ResourceLabelKey}} :
        /\ OwnerLabelKey \in DOMAIN l => l[OwnerLabelKey] \in {OwnerMe, OwnerOther}
        /\ ResourceLabelKey \in DOMAIN l => l[ResourceLabelKey] \in {ResA, ResB}}

\* heritage string -> label bag
HeritageTable == {<<Serialize(l), l>> : l \in LabelBags}

\* endpoint.NewLabelsFromString: <<labels>>, or <<>> for ErrInvalidHeritage.
\* The text is read back as the label bag that serializes to it.
NewLabelsFromString(labelText) ==
    IF \E h \in HeritageTable : h[1] = labelText
    THEN <<(CHOOSE h \in HeritageTable : h[1] = labelText)[2]>>
    ELSE <<>>

\* strings.HasPrefix
HasPrefix(str, pre) ==
    Len(str) >= Len(pre) /\ SubSeq(str, 1, Len(pre)) = pre

\* strings.TrimPrefix
TrimPrefix(str, pre) ==
    IF HasPrefix(str, pre) THEN SubSeq(str, Len(pre) + 1, Len(str)) ELSE str

\* prefixNameMapper.toEndpointName
toEndpointName(pr, txtDNSName) ==
    IF HasPrefix(txtDNSName, pr) THEN TrimPrefix(txtDNSName, pr) ELSE <<>>

\* prefixNameMapper.toTXTName
\* a mapper that puts the prefix behind the name
toTXTNameSuffixed(pr, endpointDNSName) == endpointDNSName \o pr

toTXTName(pr, endpointDNSName) == pr \o endpointDNSName

\* the TXT record holds a heritage string
IsHeritageTXT(record) ==
    /\ record.RecordType = RecordTypeTXT
    /\ NewLabelsFromString(record.Targets[1]) # <<>>

\* Records(), first loop: labelMap, mapped endpoint name -> labels; a later
\* TXT record of the same mapped name overwrites an earlier one
labelMapOf(recs, pr) ==
    LET marks == Filter(recs, [i \in 1..Len(recs) |-> IsHeritageTXT(recs[i])])
    IN  [k \in {toEndpointName(pr, m.DNSName) : m \in Range(marks)} |->
            NewLabelsFromString(
                LastOf(marks, [i \in 1..Len(marks) |->
                          toEndpointName(pr, marks[i].DNSName) = k])[1].Targets[1])[1]]

\* Records() on a refresh: the records that are no heritage TXT, each with
\* the labels labelMap holds for its name, or fresh labels
RecordsOf(recs, pr) ==
    LET eps == Filter(recs, [i \in 1..Len(recs) |-> ~IsHeritageTXT(recs[i])])
        lm == labelMapOf(recs, pr)
    IN  [i \in 1..Len(eps) |->
            [eps[i] EXCEPT !.Labels = IF eps[i].DNSName \in DOMAIN lm
                                      THEN lm[eps[i].DNSName]
                                      ELSE NewLabels]]

\* filterOwnedRecords: the records whose owner label is ownerID
filterOwnedRecords(ownerID, eps) ==
    Filter(eps, [i \in 1..Len(eps) |->
                    /\ OwnerLabelKey \in DOMAIN eps[i].Labels
                    /\ eps[i].Labels[OwnerLabelKey] = ownerID])

\* the TXT record ApplyChanges builds for a record
TXTFor(pr, r) ==
    NewEndpoint(toTXTName(pr, r.DNSName), RecordTypeTXT, Serialize(r.Labels))

\* a range loop that appends the TXT record of each record of the list
WithTXT(pr, eps) == eps \o [i \in 1..Len(eps) |-> TXTFor(pr, eps[i])]

\* an ApplyChanges that does not filter Delete
filteredChangesAllDeletes(changes, pr, ownerID) ==
    [Create |-> WithTXT(pr, [i \in 1..Len(changes.Create) |->
                    [changes.Create[i] EXCEPT !.Labels =
                        SetLabel(@, OwnerLabelKey, ownerID)]]),
     UpdateNew |-> WithTXT(pr, filterOwnedRecords(ownerID, changes.UpdateNew)),
     UpdateOld |-> WithTXT(pr, filterOwnedRecords(ownerID, changes.UpdateOld)),
     Delete |-> WithTXT(pr, changes.Delete)]

\* the filteredChanges that ApplyChanges hands to the provider
filteredChanges(changes, pr, ownerID) ==
    [Create |-> WithTXT(pr, [i \in 1..Len(changes.Create) |->
                    [changes.Create[i] EXCEPT !.Labels =
                        SetLabel(@, OwnerLabelKey, ownerID)]]),
     UpdateNew |-> WithTXT(pr, filterOwnedRecords(ownerID, changes.UpdateNew)),
     UpdateOld |-> WithTXT(pr, filterOwnedRecords(ownerID, changes.UpdateOld)),
     Delete |-> WithTXT(pr, filterOwnedRecords(ownerID, changes.Delete))]

\* TXTRegistry.addToCache
addToCache(cache, ep) ==
    IF cache.set THEN [cache EXCEPT !.eps = Append(@, ep)] ELSE cache

\* TXTRegistry.removeFromCache: the first entry of the name, type and targets
removeFromCache(cache, ep) ==
    LET hit == {i \in 1..Len(cache.eps) :
                   /\ cache.eps[i].DNSName = ep.DNSName
                   /\ cache.eps[i].RecordType = ep.RecordType
                   /\ TargetsSame(cache.eps[i].Targets, ep.Targets)}
    IN  IF ~cache.set \/ hit = {} THEN cache
        ELSE LET first == CHOOSE i \in hit : \A j \in hit : i <= j
             IN  [cache EXCEPT !.eps =
                     SubSeq(@, 1, first - 1) \o SubSeq(@, first + 1, Len(@))]

RECURSIVE addAllToCache(_, _)
addAllToCache(cache, eps) ==
    IF eps = <<>> THEN cache
    ELSE addAllToCache(addToCache(cache, Head(eps)), Tail(eps))

RECURSIVE removeAllFromCache(_, _)
removeAllFromCache(cache, eps) ==
    IF eps = <<>> THEN cache
    ELSE removeAllFromCache(removeFromCache(cache, Head(eps)), Tail(eps))

\* the cache after the four loops of ApplyChanges over the records the
\* provider is handed (the TXT records appended by a loop are not visited)
cacheAfterApply(cache, changes, ownerID) ==
    LET created == [i \in 1..Len(changes.Create) |->
                       [changes.Create[i] EXCEPT !.Labels =
                           SetLabel(@, OwnerLabelKey, ownerID)]]
        c1 == addAllToCache(cache, created)
        c2 == removeAllFromCache(c1, filterOwnedRecords(ownerID, changes.Delete))
        c3 == removeAllFromCache(c2, filterOwnedRecords(ownerID, changes.UpdateOld))
    IN  addAllToCache(c3, filterOwnedRecords(ownerID, changes.UpdateNew))

\* a Records that may read the provider although the cache is fresh
TXTRecordsAnyAge ==
    /\ dnspc = "start"
    /\ \/ /\ cacheOn /\ recordsCache.set
          /\ records' = recordsCache.eps
          /\ dnspc' = "read"
          /\ UNCHANGED <<recordsCache, dnsErr, calls>>
       \/ /\ calls' = Append(calls, Call("provider.Records", "", "records"))
          /\ records' = <<>>
          /\ dnsErr' = "records"
          /\ dnspc' = "done"
          /\ UNCHANGED recordsCache
       \/ /\ calls' = Append(calls, Call("provider.Records", "", ""))
          /\ records' = RecordsOf(zone, prefix)
          /\ recordsCache' = IF cacheOn
                             THEN [set |-> TRUE, eps |-> RecordsOf(zone, prefix),
                                   fresh |-> TRUE]
                             ELSE recordsCache
          /\ dnspc' = "read"
          /\ UNCHANGED dnsErr
    /\ UNCHANGED <<zone, prefix, cacheOn, desired, policy, dnsChanges, forwarded,
                   tick, fwVars, services, nodes, runErr, runpc, stopChan,
                   logged, eipVars>>

\* TXTRegistry.Records; calls logs the reads of the provider
TXTRecords ==
    /\ dnspc = "start"
    /\ \/ \* the cache is set and younger than cacheInterval
          /\ cacheOn /\ recordsCache.set /\ recordsCache.fresh
          /\ records' = recordsCache.eps
          /\ dnspc' = "read"
          /\ UNCHANGED <<recordsCache, dnsErr, calls>>
       \/ \* provider.Records() fails
          /\ ~(cacheOn /\ recordsCache.set /\ recordsCache.fresh)
          /\ calls' = Append(calls, Call("provider.Records", "", "records"))
          /\ records' = <<>>
          /\ dnsErr' = "records"
          /\ dnspc' = "done"
          /\ UNCHANGED recordsCache
       \/ \* the records are read from the provider; with cacheInterval > 0
          \* they are cached and recordsCacheRefreshTime is now
          /\ ~(cacheOn /\ recordsCache.set /\ recordsCache.fresh)
          /\ calls' = Append(calls, Call("provider.Records", "", ""))
          /\ records' = RecordsOf(zone, prefix)
          /\ recordsCache' = IF cacheOn
                             THEN [set |-> TRUE, eps |-> RecordsOf(zone, prefix),
                                   fresh |-> TRUE]
                             ELSE recordsCache
          /\ dnspc' = "read"
          /\ UNCHANGED dnsErr
    /\ UNCHANGED <<zone, prefix, cacheOn, desired, policy, dnsChanges, forwarded,
                   tick, fwVars, services, nodes, runErr, runpc, stopChan,
                   logged, eipVars>>

\* TXTRegistry.ApplyChanges; the provider's ApplyChanges returns nil or an
\* error
TXTApplyChanges ==
    /\ dnspc = "planned"
    /\ \E err \in {"", "apply"} :
           /\ forwarded' = <<[changes |-> filteredChanges(dnsChanges, prefix, OwnerMe),
                              err |-> err]>>
           /\ dnsErr' = err
    /\ recordsCache' = IF cacheOn
                       THEN cacheAfterApply(recordsCache, dnsChanges, OwnerMe)
                       ELSE recordsCache
    /\ dnspc' = "done"
    /\ UNCHANGED <<zone, prefix, cacheOn, records, desired, policy, dnsChanges,
                   tick, fwVars, ctlVars, eipVars>>

(***************************************************************************)
(* Service external IPs plan engine (extip/plan).                          *)
(*                                                                         *)
(* An ExtIP is [SvcName, ExtIPs]; the plan table maps a service name to a  *)
(* row of two pointers, <<>> for nil.                                      *)
(***************************************************************************)
\* planTable after addCurrent for every current and addCandidate for every
\* desired ExtIP: both overwrite, the last one of a name stays
eipPlanTable(current, desiredExt) ==
    [k \in {e.SvcName : e \in Range(current) \cup Range(desiredExt)} |->
        [current |-> LastOf(current,
                            [i \in 1..Len(current) |-> current[i].SvcName = k]),
         candidate |-> LastOf(desiredExt,
                              [i \in 1..Len(desiredExt) |->
                                  desiredExt[i].SvcName = k])]]

\* an extipChanged that compares the lists position by position
extipChangedOrdered(des, cur) == des.ExtIPs # cur.ExtIPs

extipChanged(des, cur) == ~TargetsSame(des.ExtIPs, cur.ExtIPs)

\* a getUpdates that leaves a row without candidate alone
eipGetUpdatesWanted(t, order) ==
    LET Upd(k) == IF t[k].candidate = <<>> THEN t[k].current[1]
                  ELSE t[k].candidate[1]
        ks == Filter(order, [i \in 1..Len(order) |->
                  /\ t[order[i]].current # <<>>
                  /\ t[order[i]].candidate # <<>>
                  /\ extipChanged(Upd(order[i]), t[order[i]].current[1])])
    IN  [UpdateNew |-> [i \in 1..Len(ks) |-> Upd(ks[i])],
         UpdateOld |-> [i \in 1..Len(ks) |-> t[ks[i]].current[1]]]

\* planTable.getUpdates, the rows visited in the given order: a row without
\* current is skipped, a row without candidate gets one with no ExtIPs
eipGetUpdates(t, order) ==
    LET Upd(k) == IF t[k].candidate = <<>>
                  THEN [SvcName |-> t[k].current[1].SvcName, ExtIPs |-> <<>>]
                  ELSE t[k].candidate[1]
        ks == Filter(order, [i \in 1..Len(order) |->
                  /\ t[order[i]].current # <<>>
                  /\ extipChanged(Upd(order[i]), t[order[i]].current[1])])
    IN  [UpdateNew |-> [i \in 1..Len(ks) |-> Upd(ks[i])],
         UpdateOld |-> [i \in 1..Len(ks) |-> t[ks[i]].current[1]]]

\* ExtIP Plan.Calculate: every Changes it can return
EipCalculate(current, desiredExt) ==
    {eipGetUpdates(eipPlanTable(current, desiredExt), o) :
        o \in Orders(DOMAIN eipPlanTable(current, desiredExt))}

(***************************************************************************)
(* Service source (source): ExternalIPSetting.                             *)
(*                                                                         *)
(* A service is a record of its name, its annotations (Hostname: <<>> when  *)
(* absent, else <<value>>; Selector: "" when absent, else the group label   *)
(* it asks for; MaxIPs and TTL: 0 when absent; Controller: "" when absent;  *)
(* Malformed: the annotations whose value does not parse), its ports and    *)
(* spec.externalIPs. A node has a creation time, addresses, a provider id   *)
(* and a group label. The services live in the default namespace; the       *)
(* annotation filter is empty.                                              *)
(***************************************************************************)
ClusterName == "c"

\* sort.Sort(Targets) and sort.Slice(nodes, ...): s in the order of its
\* elements' ranks (rank[i] is the rank of s[i])
SortedBy(s, rank) ==
    LET perm == CHOOSE p \in [1..Len(s) -> 1..Len(s)] :
                    \A i, j \in 1..Len(s) :
                        i < j => \/ rank[p[i]] < rank[p[j]]
                                 \/ rank[p[i]] = rank[p[j]] /\ p[i] < p[j]
    IN  [i \in 1..Len(s) |-> s[perm[i]]]

equalIPs(a, b) ==
    /\ Len(a) = Len(b)
    /\ \A i \in 1..Len(a) : a[i] = b[i]

\* getTTLFromAnnotations: a value that does not parse or lies outside
\* [ttlMinimum, ttlMaximum] is an error, which generateEndpoint only logs;
\* the TTL is then 0, as without annotation
\* (ttlMaximum is 2^32 - 1, written here as 65536 * 65536 - 1)
getTTLFromAnnotations(svc) ==
    IF "ttl" \in svc.Malformed \/ svc.TTL < 1 \/ svc.TTL \div 65536 >= 65536
    THEN 0 ELSE svc.TTL

\* getHostnamesFromAnnotations: nil without annotation, else the value
\* without blanks, split at the commas
getHostnamesFromAnnotations(svc) ==
    LET RECURSIVE split(_, _)
        split(rest, cur) ==
            IF rest = <<>> THEN <<cur>>
            ELSE IF Head(rest) = "," THEN <<cur>> \o split(Tail(rest), <<>>)
            ELSE split(Tail(rest), Append(cur, Head(rest)))
    IN  IF svc.Hostname = <<>> THEN <<>>
        ELSE split(Filter(svc.Hostname[1],
                          [i \in 1..Len(svc.Hostname[1]) |->
                              svc.Hostname[1][i] # " "]), <<>>)

\* an extractNodeInfo that cuts the node list at maxips before it looks at
\* the selector
extractNodeInfoCutFirst(svc, ns) ==
    LET cut == IF svc.MaxIPs > 0 /\ svc.MaxIPs < Len(ns)
               THEN SubSeq(ns, 1, svc.MaxIPs) ELSE ns
        sel == Filter(cut, [i \in 1..Len(cut) |->
                               svc.Selector = "" \/ cut[i].Group = svc.Selector])
        ext == [i \in 1..Len(sel) |-> sel[i].ExternalIP]
        int == [i \in 1..Len(sel) |-> sel[i].InternalIP]
    IN  [externalIPs |-> SortedBy(ext, [i \in 1..Len(ext) |-> TargetRank(ext[i])]),
         internalIPs |-> SortedBy(int, [i \in 1..Len(int) |-> TargetRank(int[i])]),
         providerIDs |-> [i \in 1..Len(sel) |-> sel[i].ProviderID]]

\* extractNodeInfo, the annotations parsed: the loop over the nodes takes a
\* node when the selector is nil or matches its labels, and breaks after a
\* node when maxips > 0 nodes are taken; the addresses are sorted
extractNodeInfo(svc, ns) ==
    LET RECURSIVE walk(_, _)
        walk(i, taken) ==
            IF i > Len(ns) THEN taken
            ELSE LET now == IF svc.Selector = "" \/ ns[i].Group = svc.Selector
                            THEN Append(taken, ns[i]) ELSE taken
                 IN  IF svc.MaxIPs > 0 /\ Len(now) >= svc.MaxIPs THEN now
                     ELSE walk(i + 1, now)
        sel == walk(1, <<>>)
        ext == [i \in 1..Len(sel) |-> sel[i].ExternalIP]
        int == [i \in 1..Len(sel) |-> sel[i].InternalIP]
    IN  [externalIPs |-> SortedBy(ext, [i \in 1..Len(ext) |-> TargetRank(ext[i])]),
         internalIPs |-> SortedBy(int, [i \in 1..Len(int) |-> TargetRank(int[i])]),
         providerIDs |-> [i \in 1..Len(sel) |-> sel[i].ProviderID]]

\* generateEndpoint, with strings.TrimSuffix(hostname, ".")
generateEndpoint(svc, hostname, nodeTargets) ==
    Endpoint(IF Len(hostname) > 0 /\ hostname[Len(hostname)] = "."
             THEN SubSeq(hostname, 1, Len(hostname) - 1) ELSE hostname,
             RecordTypeA, nodeTargets, getTTLFromAnnotations(svc), NewLabels)

\* serviceSource.endpoints
endpoints(svc, nodeTargets) ==
    [i \in 1..Len(getHostnamesFromAnnotations(svc)) |->
        generateEndpoint(svc, getHostnamesFromAnnotations(svc)[i], nodeTargets)]

\* serviceSource.inboundRules, for the default namespace
inboundRules(svc, providerIDs) ==
    InboundRules(svc.Name \o "." \o ClusterName, svc.Ports, providerIDs)

\* setResourceLabel
setResourceLabel(svc, eps) ==
    [i \in 1..Len(eps) |->
        [eps[i] EXCEPT !.Labels =
            SetLabel(@, ResourceLabelKey, "service/default/" \o svc.Name)]]

RECURSIVE settingEndpoints(_, _, _)
\* setting.Endpoints after the first n services of the loop: the label is set
\* on the endpoints gathered so far, then the service's own are appended
settingEndpoints(active, ns, n) ==
    IF n = 0 THEN <<>>
    ELSE setResourceLabel(active[n], settingEndpoints(active, ns, n - 1))
         \o endpoints(active[n], extractNodeInfo(active[n], ns).externalIPs)

\* updateExternalIPs issues Services.Update for the service
\* a condition of the write that does not look at the dry-run flag
needsUpdateAlways(svc, ns, dry) ==
    ~equalIPs(svc.ExternalIPs, extractNodeInfo(svc, ns).internalIPs)

needsUpdate(svc, ns, dry) ==
    ~equalIPs(svc.ExternalIPs, extractNodeInfo(svc, ns).internalIPs) /\ ~dry

\* the cluster after Services.Update succeeded for the services named
updatedServices(svcs, names, ns) ==
    [i \in 1..Len(svcs) |->
        IF svcs[i].Name \in names
        THEN [svcs[i] EXCEPT !.ExternalIPs = extractNodeInfo(svcs[i], ns).internalIPs]
        ELSE svcs[i]]

(***************************************************************************)
(* Controller (controller): RunOnce and Run. The registries and the source *)
(* are the controller's ports: a call to one returns a value or an error.  *)
(***************************************************************************)

\* RunOnce goes on although the call returned an error
RunStepGoOn(err, next) ==
    /\ runpc' = next
    /\ runErr' = runErr

\* if err != nil { return err }, else on to the next statement
RunStep(err, next) ==
    IF err # ""
    THEN runpc' = "done" /\ runErr' = err
    ELSE runpc' = next /\ runErr' = runErr

\* what Registry.Records() can return
CtlRecords ==
    { <<>>,
      <<Endpoint(<<"f">>, RecordTypeA, <<"10.0.0.1">>, 0, LabelsOf(OwnerMe, ResA))>>,
      <<Endpoint(<<"b">>, RecordTypeA, <<"10.0.0.3">>, 0, LabelsOf(OwnerMe, ResB))>> }

\* what FwRegistry.Rules() can return
CtlRules ==
    { <<>>,
      <<InboundRules("a.c", <<InboundRule("tcp", 80)>>, <<"i-1">>)>>,
      <<InboundRules("b.c", <<InboundRule("tcp", 80)>>, <<"i-1a">>)>> }

\* records, err := c.Registry.Records()
RunRecords ==
    /\ runpc = "records"
    /\ \/ /\ calls' = Append(calls, Call("Registry.Records", "", "records"))
          /\ RunStep("records", "rules")
          /\ UNCHANGED records
       \/ /\ calls' = Append(calls, Call("Registry.Records", "", ""))
          /\ RunStep("", "rules")
          /\ records' \in CtlRecords
    /\ UNCHANGED <<zone, prefix, cacheOn, recordsCache, desired, policy,
                   dnsChanges, forwarded, dnsErr, tick, dnspc, fwVars,
                   services, nodes, stopChan,
                   logged, eipVars>>

\* rules, err := c.FwRegistry.Rules()
RunRules ==
    /\ runpc = "rules"
    /\ \/ /\ calls' = Append(calls, Call("FwRegistry.Rules", "", "rules"))
          /\ RunStep("rules", "source")
          /\ UNCHANGED fwCurrent
       \/ /\ calls' = Append(calls, Call("FwRegistry.Rules", "", ""))
          /\ RunStep("", "source")
          /\ fwCurrent' \in CtlRules
    /\ UNCHANGED <<dnsVars, fwDesired, fwChanges, fwPlanned, sgroups, sgBound,
                   fwOps, fwpc, fwIdx, fwErr, dryRun, services, nodes, stopChan,
                   logged, eipVars>>

\* the Services.Update calls of the first n services of the loop, the last
\* of them returning err
updateCalls(active, ns, n, err) ==
    LET idx == Filter([i \in 1..n |-> i],
                      [i \in 1..n |-> needsUpdate(active[i], ns, dryRun)])
    IN  [k \in 1..Len(idx) |->
            Call("Services.Update", active[idx[k]].Name,
                 IF k = Len(idx) THEN err ELSE "")]

\* setting, err := c.Source.ExternalIPSetting()
RunSource ==
    /\ runpc = "source"
    /\ LET ns == SortedBy(nodes, [i \in 1..Len(nodes) |-> nodes[i].Created])
           \* the services the loop does not skip: those with hostnames
           active == Filter(services,
                            [i \in 1..Len(services) |->
                                Len(getHostnamesFromAnnotations(services[i])) > 0])
           \* the services extractNodeInfo returns an error for: the selector
           \* or the maxips annotation does not parse
           bad == {i \in 1..Len(active) :
                      active[i].Malformed \cap {"selector", "maxips"} # {}}
           \* the services the loop works on when no call fails
           last == IF bad = {} THEN Len(active)
                   ELSE (CHOOSE i \in bad : \A j \in bad : i <= j) - 1
       IN  \/ \* listing the services or the nodes fails
              /\ calls' = Append(calls, Call("Source.ExternalIPSetting", "", "source"))
              /\ RunStep("source", "fwapply")
              /\ UNCHANGED <<services, desired, fwDesired, eipDesired>>
           \/ \* Services.Update fails for the n-th service of the loop
              \E n \in 1..last :
                  /\ needsUpdate(active[n], ns, dryRun)
                  /\ calls' = Append(calls, Call("Source.ExternalIPSetting", "", "source"))
                                  \o updateCalls(active, ns, n, "source")
                  /\ services' = updatedServices(services,
                         {active[i].Name : i \in {j \in 1..(n - 1) :
                             needsUpdate(active[j], ns, dryRun)}}, ns)
                  /\ RunStep("source", "fwapply")
                  /\ UNCHANGED <<desired, fwDesired, eipDesired>>
           \/ \* extractNodeInfo returns an error for the service after last
              /\ bad # {}
              /\ calls' = Append(calls, Call("Source.ExternalIPSetting", "", "annotation"))
                               \o updateCalls(active, ns, last, "")
              /\ services' = updatedServices(services,
                     {active[i].Name : i \in {j \in 1..last :
                         needsUpdate(active[j], ns, dryRun)}}, ns)
              /\ RunStep("annotation", "fwapply")
              /\ UNCHANGED <<desired, fwDesired, eipDesired>>
           \/ /\ bad = {}
              /\ calls' = Append(calls, Call("Source.ExternalIPSetting", "", ""))
                               \o updateCalls(active, ns, Len(active), "")
              /\ services' = updatedServices(services,
                     {active[i].Name : i \in {j \in 1..Len(active) :
                         needsUpdate(active[j], ns, dryRun)}}, ns)
              /\ desired' = settingEndpoints(active, ns, Len(active))
              /\ fwDesired' = [i \in 1..Len(active) |->
                     inboundRules(active[i], extractNodeInfo(active[i], ns).providerIDs)]
              \* the setting is built without ExtIPs and none is appended
              /\ eipDesired' = <<>>
              /\ RunStep("", "fwapply")
    /\ UNCHANGED <<zone, prefix, cacheOn, recordsCache, records, policy,
                   dnsChanges, forwarded, dnsErr, tick, dnspc, fwCurrent,
                   fwChanges, fwPlanned, sgroups, sgBound, fwOps, fwpc, fwIdx,
                   fwErr, dryRun, nodes, stopChan, logged, eipCurrent,
                   eipChanges, eippc>>

\* fwplan.Calculate() and c.FwRegistry.ApplyChanges(fwplan.Changes)
RunFwApply ==
    /\ runpc = "fwapply"
    /\ fwChanges' \in FwCalculate(fwCurrent, fwDesired)
    /\ \E err \in {"", "fwapply"} :
           /\ calls' = Append(calls, Call("FwRegistry.ApplyChanges", "", err))
           /\ RunStep(err, "dnsapply")
    /\ UNCHANGED <<dnsVars, fwCurrent, fwDesired, fwPlanned, sgroups, sgBound,
                   fwOps, fwpc, fwIdx, fwErr, dryRun, services, nodes, stopChan,
                   logged, eipVars>>

\* plan.Calculate() and return c.Registry.ApplyChanges(plan.Changes)
RunDnsApply ==
    /\ runpc = "dnsapply"
    /\ dnsChanges' \in Calculate(records, desired, policy)
    /\ \E err \in {"", "dnsapply"} :
           /\ calls' = Append(calls, Call("Registry.ApplyChanges", "", err))
           /\ RunStep(err, "done")
    /\ UNCHANGED <<zone, prefix, cacheOn, recordsCache, records, desired, policy,
                   forwarded, dnsErr, tick, dnspc, fwVars, services, nodes, stopChan,
                   logged, eipVars>>

(***************************************************************************)
(* SpecPlan: Plan.Calculate on every pair of endpoint lists.               *)
(***************************************************************************)
InitPlan ==
    /\ RegistryIdle
    /\ records \in SeqsUpTo(PlanPool, MaxLen)
    /\ desired \in SeqsUpTo(PlanPool, MaxLen)
    /\ policy \in Policies
    /\ dnsChanges = NoChanges
    /\ dnsErr = ""
    /\ tick = 1
    /\ dnspc = "read"
    /\ FwIdle
    /\ CtlIdle
    /\ EipIdle

\* plan = plan.Calculate() in Controller.RunOnce
DnsCalculate ==
    /\ dnspc = "read"
    /\ dnsChanges' \in Calculate(records, desired, policy)
    /\ dnspc' = "planned"
    /\ UNCHANGED <<zone, prefix, cacheOn, recordsCache, records, desired,
                   policy, forwarded, dnsErr, tick, fwVars, ctlVars, eipVars>>

NextPlan == DnsCalculate

SpecPlan == InitPlan /\ [][NextPlan]_vars

(***************************************************************************)
(* Claims about Plan.Calculate (SpecPlan).                                 *)
(***************************************************************************)
\* the rows of the plan table of this tick
PlanRows == planTable(records, desired)

\* C7: under the UpsertOnly policy the Changes that Plan.Calculate returns
\* have an empty Delete list, whatever the current and the desired lists.
C7_UpsertOnlyNoDelete ==
    (dnspc = "planned" /\ policy = UpsertOnlyPolicy)
        => dnsChanges.Delete = <<>>

\* C7 witness: UpsertOnly planned a tick in which a current record has no
\* candidate, so that the diff itself asks for a delete.
C7_Witness ==
    /\ dnspc = "planned"
    /\ policy = UpsertOnlyPolicy
    /\ \E k \in DOMAIN PlanRows :
           PlanRows[k].current # <<>> /\ Len(PlanRows[k].candidates) = 0

AllEmpty(changes) ==
    /\ changes.Create = <<>>
    /\ changes.UpdateOld = <<>>
    /\ changes.UpdateNew = <<>>
    /\ changes.Delete = <<>>

\* C9 as stated: desired = current gives four empty lists, also when several
\* endpoints of the list share a name.
C9_IdempotentAnyList ==
    (dnspc = "planned" /\ desired = records) => AllEmpty(dnsChanges)

\* endpoints of the list that share a (sanitized) name carry different
\* resource labels
DistinctResourcesPerName(eps) ==
    \A i, j \in 1..Len(eps) :
        (i # j /\ sanitizeDNSName(eps[i].DNSName) = sanitizeDNSName(eps[j].DNSName))
            => ResourceOf(eps[i]) # ResourceOf(eps[j])

\* C9 amended: desired = current gives four empty lists when the endpoints
\* that share a name carry pairwise different resource labels.
C9_Idempotent ==
    (dnspc = "planned" /\ desired = records /\ DistinctResourcesPerName(records))
        => AllEmpty(dnsChanges)

\* C9 witness: a planned tick with desired = current in which two endpoints
\* of different resources share a name.
C9_Witness ==
    /\ dnspc = "planned"
    /\ desired = records
    /\ DistinctResourcesPerName(records)
    /\ \E i, j \in 1..Len(records) :
           /\ i # j
           /\ sanitizeDNSName(records[i].DNSName)
                  = sanitizeDNSName(records[j].DNSName)

\* t and o hold the same values, each as often, in whatever order
SamePermuted(t, o) ==
    /\ Len(t) = Len(o)
    /\ \E f \in [1..Len(t) -> 1..Len(o)] :
           /\ \A i, j \in 1..Len(t) : f[i] = f[j] => i = j
           /\ \A i \in 1..Len(t) : t[i] = o[f[i]]

\* the plan holds an update pair for the row's current record
PairEmitted(row) ==
    \E i \in 1..Len(dnsChanges.UpdateOld) :
        /\ dnsChanges.UpdateOld[i] = row.current[1]
        /\ i <= Len(dnsChanges.UpdateNew)
        /\ dnsChanges.UpdateNew[i].Targets
               = ResolveUpdate(row.current[1], row.candidates).Targets

\* C10: for a name with a current record and at least one candidate, an
\* (UpdateOld, UpdateNew) pair is emitted iff the resolved candidate's targets
\* differ from the current ones as collections, or its TTL is set and differs
\* from the current TTL.
C10_UpdateIff ==
    dnspc = "planned" =>
        \A k \in DOMAIN PlanRows :
            (PlanRows[k].current # <<>> /\ Len(PlanRows[k].candidates) > 0) =>
                LET cur == PlanRows[k].current[1]
                    res == ResolveUpdate(cur, PlanRows[k].candidates)
                IN  PairEmitted(PlanRows[k])
                        <=> \/ ~SamePermuted(res.Targets, cur.Targets)
                            \/ (res.RecordTTL > 0 /\ res.RecordTTL # cur.RecordTTL)

\* C10 witness: a planned row whose resolved candidate has the current targets
\* in another order and no TTL, while the current record has one: no pair.
C10_Witness ==
    /\ dnspc = "planned"
    /\ \E k \in DOMAIN PlanRows :
           /\ PlanRows[k].current # <<>>
           /\ Len(PlanRows[k].candidates) > 0
           /\ LET cur == PlanRows[k].current[1]
                  res == ResolveUpdate(cur, PlanRows[k].candidates)
              IN  /\ res.Targets # cur.Targets
                  /\ SamePermuted(res.Targets, cur.Targets)
                  /\ res.RecordTTL = 0
                  /\ cur.RecordTTL > 0
                  /\ ~PairEmitted(PlanRows[k])

\* C11: under the Sync policy, for every sanitized DNS name: with no current
\* record (and so at least one candidate) Create holds exactly one record of
\* the name, the resolved candidate, and Delete none; with a current record
\* and no candidate Delete holds exactly the current record and Create none
\* of the name; otherwise neither list holds a record of the name.
C11_CreateDeletePerName ==
    (dnspc = "planned" /\ policy = SyncPolicy) =>
        \A k \in DOMAIN PlanRows :
            LET row == PlanRows[k]
                named(l) == Filter(l, [i \in 1..Len(l) |->
                                          sanitizeDNSName(l[i].DNSName) = k])
                created == named(dnsChanges.Create)
                deleted == named(dnsChanges.Delete)
            IN  /\ row.current = <<>> =>
                       /\ Len(row.candidates) > 0
                       /\ created = <<ResolveCreate(row.candidates)>>
                       /\ created[1] \in Range(row.candidates)
                       /\ deleted = <<>>
                /\ (row.current # <<>> /\ Len(row.candidates) = 0) =>
                       /\ deleted = row.current
                       /\ created = <<>>
                /\ (row.current # <<>> /\ Len(row.candidates) > 0) =>
                       /\ created = <<>>
                       /\ deleted = <<>>

\* C11 witness: a Sync plan with a free name wanted by two candidates, whose
\* resolved candidate is created, and a taken name nobody wants, deleted.
C11_Witness ==
    /\ dnspc = "planned"
    /\ policy = SyncPolicy
    /\ \E k \in DOMAIN PlanRows :
           /\ PlanRows[k].current = <<>>
           /\ Len(PlanRows[k].candidates) = 2
           /\ dnsChanges.Create = <<ResolveCreate(PlanRows[k].candidates)>>
    /\ \E k \in DOMAIN PlanRows :
           /\ PlanRows[k].current # <<>>
           /\ Len(PlanRows[k].candidates) = 0
           /\ dnsChanges.Delete = PlanRows[k].current

\* C12: in every update pair that Plan.Calculate emits, the owner label of
\* the UpdateNew record equals the owner label of the paired UpdateOld
\* record, whatever owner the desired record carried and also when one of
\* the two records had no labels (a missing label reads as "").
C12_OwnerInherited ==
    dnspc = "planned" =>
        /\ Len(dnsChanges.UpdateNew) = Len(dnsChanges.UpdateOld)
        /\ \A i \in 1..Len(dnsChanges.UpdateNew) :
               Label(dnsChanges.UpdateNew[i].Labels, OwnerLabelKey)
                   = Label(dnsChanges.UpdateOld[i].Labels, OwnerLabelKey)

\* C12 witness: a pair is emitted for a current record without labels whose
\* resolved candidate carried an owner, and the new record's owner is "".
C12_Witness ==
    /\ dnspc = "planned"
    /\ \E k \in DOMAIN PlanRows :
           /\ PlanRows[k].current # <<>>
           /\ Len(PlanRows[k].candidates) > 0
           /\ PlanRows[k].current[1].Labels = NewLabels
           /\ Label(ResolveUpdate(PlanRows[k].current[1],
                                  PlanRows[k].candidates).Labels,
                    OwnerLabelKey) = OwnerMe
           /\ PairEmitted(PlanRows[k])
           /\ \E i \in 1..Len(dnsChanges.UpdateNew) :
                  /\ dnsChanges.UpdateOld[i] = PlanRows[k].current[1]
                  /\ Label(dnsChanges.UpdateNew[i].Labels, OwnerLabelKey) = ""

\* C13 as stated: when several candidates share a name and the current
\* record's resource label equals that of a candidate, the row resolves to
\* that candidate, and no update is emitted for the name when that
\* candidate's targets and TTL match the current record.
C13_StableAnyCandidate ==
    dnspc = "planned" =>
        \A k \in DOMAIN PlanRows :
            (PlanRows[k].current # <<>> /\ Len(PlanRows[k].candidates) > 1) =>
                LET cur == PlanRows[k].current[1]
                IN  \A c \in Range(PlanRows[k].candidates) :
                        ResourceOf(c) = ResourceOf(cur) =>
                            /\ ResolveUpdate(cur, PlanRows[k].candidates) = c
                            /\ (TargetsSame(c.Targets, cur.Targets)
                                    /\ c.RecordTTL = cur.RecordTTL) =>
                                   \A i \in 1..Len(dnsChanges.UpdateOld) :
                                       sanitizeDNSName(dnsChanges.UpdateOld[i].DNSName) # k

\* C13 amended: the same when that candidate is the only one of the row that
\* carries the current record's resource label.
C13_Stable ==
    dnspc = "planned" =>
        \A k \in DOMAIN PlanRows :
            (PlanRows[k].current # <<>> /\ Len(PlanRows[k].candidates) > 1) =>
                LET cur == PlanRows[k].current[1]
                IN  \A c \in Range(PlanRows[k].candidates) :
                        (/\ ResourceOf(c) = ResourceOf(cur)
                         /\ \A d \in Range(PlanRows[k].candidates) :
                                ResourceOf(d) = ResourceOf(cur) => d = c) =>
                            /\ ResolveUpdate(cur, PlanRows[k].candidates) = c
                            /\ (TargetsSame(c.Targets, cur.Targets)
                                    /\ c.RecordTTL = cur.RecordTTL) =>
                                   \A i \in 1..Len(dnsChanges.UpdateOld) :
                                       sanitizeDNSName(dnsChanges.UpdateOld[i].DNSName) # k

\* C13 witness: a planned row with two candidates of different resources;
\* the one of the current record's resource equals the current record and is
\* resolved although the other has the smaller target; no update for the name.
C13_Witness ==
    /\ dnspc = "planned"
    /\ \E k \in DOMAIN PlanRows :
           /\ PlanRows[k].current # <<>>
           /\ Len(PlanRows[k].candidates) = 2
           /\ \E c, d \in Range(PlanRows[k].candidates) :
                  /\ ResourceOf(c) = ResourceOf(PlanRows[k].current[1])
                  /\ ResourceOf(d) # ResourceOf(c)
                  /\ TargetsLess(d, c)
                  /\ c.Targets = PlanRows[k].current[1].Targets
                  /\ c.RecordTTL = PlanRows[k].current[1].RecordTTL
                  /\ ResolveUpdate(PlanRows[k].current[1], PlanRows[k].candidates) = c
           /\ dnsChanges.UpdateOld = <<>>

\* names a and b differ at most in the case of their letters and in blanks
\* around them
SameButCaseAndBlanks(a, b) ==
    \E la, ra, lb, rb \in 0..2 :
        /\ la + ra <= Len(a)
        /\ lb + rb <= Len(b)
        /\ \A i \in (1..la) \cup ((Len(a) - ra + 1)..Len(a)) : a[i] = " "
        /\ \A i \in (1..lb) \cup ((Len(b) - rb + 1)..Len(b)) : b[i] = " "
        /\ Len(a) - la - ra = Len(b) - lb - rb
        /\ \A i \in 1..(Len(a) - la - ra) :
               \/ a[la + i] = b[lb + i]
               \/ {a[la + i], b[lb + i]} \in {{"f", "F"}, {"b", "B"}, {"t", "T"}}

\* C14: a current and a desired endpoint whose names differ only in case or
\* surrounding blanks are keyed to the same row, and when they are the row's
\* current record and only candidate, with equal targets and TTL, no list of
\* the plan holds a record of either name.
C14_NameNormalized ==
    dnspc = "planned" =>
        \A cur \in Range(records), des \in Range(desired) :
            SameButCaseAndBlanks(cur.DNSName, des.DNSName) =>
                /\ sanitizeDNSName(cur.DNSName) = sanitizeDNSName(des.DNSName)
                /\ sanitizeDNSName(cur.DNSName) \in DOMAIN PlanRows
                /\ (/\ PlanRows[sanitizeDNSName(cur.DNSName)].current = <<cur>>
                    /\ PlanRows[sanitizeDNSName(cur.DNSName)].candidates = <<des>>
                    /\ TargetsSame(des.Targets, cur.Targets)
                    /\ des.RecordTTL = cur.RecordTTL) =>
                       \A e \in Range(dnsChanges.Create) \cup Range(dnsChanges.Delete)
                                \cup Range(dnsChanges.UpdateOld)
                                \cup Range(dnsChanges.UpdateNew) :
                           e.DNSName \notin {cur.DNSName, des.DNSName}

\* C14 witness: the current record is named f, the only desired endpoint
\* "F " with the same target and TTL, and the plan's four lists are empty.
C14_Witness ==
    /\ dnspc = "planned"
    /\ Len(records) = 1
    /\ Len(desired) = 1
    /\ records[1].DNSName = <<"f">>
    /\ desired[1].DNSName = <<"F", " ">>
    /\ desired[1].Targets = records[1].Targets
    /\ desired[1].RecordTTL = records[1].RecordTTL
    /\ AllEmpty(dnsChanges)

(***************************************************************************)
(* SpecFw: the firewall plan and AWSProvider.ApplyChanges, on change-sets  *)
(* that Plan.Calculate computed and on change-sets built by hand.          *)
(***************************************************************************)
MaxRuleSets == 2

FwNameA == "ab.c"
FwNameB == "b.c"
FwNodeA == "i-1"
FwNodeB == "i-1a"
RulesHTTP == <<InboundRule("tcp", 80)>>
RulesHTTPS == <<InboundRule("tcp", 443)>>

ProviderIDLists == {<<>>, <<FwNodeA>>, <<FwNodeB>>, <<FwNodeA, FwNodeB>>}

FwPool ==
    {InboundRules(FwNameA, r, ids) : r \in {RulesHTTP, RulesHTTPS},
                                     ids \in ProviderIDLists}
    \cup {InboundRules(FwNameB, RulesHTTP, ids) : ids \in ProviderIDLists}

\* lists of rule-sets with one rule-set per name: security group names are
\* unique at EC2, and a service has one name
FwLists ==
    {l \in SeqsUpTo(FwPool, MaxRuleSets) :
        \A i, j \in 1..Len(l) : l[i].Name = l[j].Name => i = j}

\* change-sets built by hand, every list empty or of one item
GivenChanges ==
    {[Create |-> c, UpdateNew |-> u, UpdateOld |-> u, Delete |-> d,
      Set |-> st, Unset |-> un] :
        c \in {<<>>, <<InboundRules(FwNameA, RulesHTTP, <<FwNodeA>>)>>},
        u \in {<<>>, <<InboundRules(FwNameB, RulesHTTPS, <<FwNodeB>>)>>},
        d \in {<<>>, <<InboundRules(FwNameB, RulesHTTP, <<FwNodeB>>)>>},
        st \in {<<>>, <<InstanceRule(FwNodeA, FwNameA)>>},
        un \in {<<>>, <<InstanceRule(FwNodeB, FwNameB)>>}}

\* EC2 as Rules() read it: the groups of fwCurrent and their instances
ProviderHolds(current) ==
    /\ sgroups = [n \in {r.Name : r \in Range(current)} |->
                     [perms |-> (CHOOSE r \in Range(current) : r.Name = n).Rules,
                      tagged |-> TRUE]]
    /\ sgBound = {<<i.ProviderID, i.RulesName>> :
                     i \in Range(InstanceRulesOf(current))}

InitFw ==
    /\ DnsIdle
    /\ CtlIdle
    /\ EipIdle
    /\ fwCurrent \in FwLists
    /\ ProviderHolds(fwCurrent)
    /\ dryRun \in BOOLEAN
    /\ fwOps = <<>>
    /\ fwIdx = 1
    /\ fwErr = FALSE
    /\ \/ /\ fwDesired \in FwLists
          /\ fwChanges = NoFwChanges
          /\ fwPlanned = TRUE
          /\ fwpc = "read"
       \/ /\ fwDesired = <<>>
          /\ fwChanges \in GivenChanges
          /\ fwPlanned = FALSE
          /\ fwpc = "create"

\* fwplan.Calculate() in Controller.RunOnce
FwPlanCalculate ==
    /\ fwpc = "read"
    /\ fwChanges' \in FwCalculate(fwCurrent, fwDesired)
    /\ fwpc' = "create"
    /\ UNCHANGED <<fwCurrent, fwDesired, fwPlanned, sgroups, sgBound, fwOps,
                   fwIdx, fwErr, dryRun, dnsVars, ctlVars, eipVars>>

NextFw ==
    \/ FwPlanCalculate
    \/ createSecurityGroups
    \/ updateSecurityGroups
    \/ setSecurityGroups
    \/ unsetSecurityGroups
    \/ deleteSecurityGroups

SpecFw == InitFw /\ [][NextFw]_vars

(***************************************************************************)
(* Claims about the firewall plan and the provider's apply (SpecFw).       *)
(***************************************************************************)
\* the place of a kind of change in the order create, update, set, unset,
\* delete
PhaseRank(kind) ==
    CASE kind = "create" -> 1
      [] kind = "update" -> 2
      [] kind = "set" -> 3
      [] kind = "unset" -> 4
      [] kind = "delete" -> 5

\* the list of fwChanges that a kind of change is taken from
PhaseList(kind) ==
    CASE kind = "create" -> fwChanges.Create
      [] kind = "update" -> fwChanges.UpdateNew
      [] kind = "set" -> fwChanges.Set
      [] kind = "unset" -> fwChanges.Unset
      [] kind = "delete" -> fwChanges.Delete

OpsOfKind(kind) == {i \in 1..Len(fwOps) : fwOps[i].kind = kind}

\* C3: ApplyChanges comes to the changes of one change-set in the order all
\* Create, all Update, all Set, all Unset, all Delete: no change of an
\* earlier kind follows one of a later kind, and when a change of some kind is
\* reached every change of every earlier kind has been gone through.
C3_ApplyOrder ==
    /\ \A i, j \in 1..Len(fwOps) :
           i < j => PhaseRank(fwOps[i].kind) <= PhaseRank(fwOps[j].kind)
    /\ \A i \in 1..Len(fwOps) :
           \A kind \in {"create", "update", "set", "unset", "delete"} :
               PhaseRank(kind) < PhaseRank(fwOps[i].kind)
                   => Cardinality(OpsOfKind(kind)) = Len(PhaseList(kind))

\* C3 witness: an apply that went through changes of all five kinds at EC2
\* and returned no error.
C3_Witness ==
    /\ fwpc = "done"
    /\ ~fwErr
    /\ ~dryRun
    /\ \A kind \in {"create", "update", "set", "unset", "delete"} :
           OpsOfKind(kind) # {}

\* C4: for a change-set that Plan.Calculate computed, at every point of its
\* apply (also one cut short by an error) no instance is bound to a rule-set
\* that has been deleted, and every Set reached names a rule-set of the
\* current list or one created earlier in this apply.
C4_SafeApply ==
    fwPlanned =>
        /\ \A b \in sgBound : b[2] \in DOMAIN sgroups
        /\ \A i \in OpsOfKind("set") :
               \/ \E r \in Range(fwCurrent) : r.Name = fwOps[i].name
               \/ \E j \in OpsOfKind("create") :
                      j < i /\ fwOps[j].name = fwOps[i].name

\* C15: for a rule-set name in both the current and the desired list, the
\* firewall plan holds an (UpdateOld, UpdateNew) pair at one index iff the two
\* rule lists differ in length or at some position in protocol or port,
\* whatever the providerIds.
C15_FwUpdateIff ==
    (fwPlanned /\ fwpc = "create") =>
        \A cur \in Range(fwCurrent), des \in Range(fwDesired) :
            cur.Name = des.Name =>
                ((\E i \in 1..Len(fwChanges.UpdateOld) :
                      /\ i <= Len(fwChanges.UpdateNew)
                      /\ fwChanges.UpdateOld[i] = cur
                      /\ fwChanges.UpdateNew[i] = des)
                 <=> cur.Rules # des.Rules)

\* C16: the firewall plan's Set list holds exactly the (providerId, name)
\* bindings of the desired list that the current list lacks, its Unset list
\* exactly those of the current list that the desired list lacks, each once,
\* and so neither holds a binding present in both.
C16_SetUnsetExact ==
    (fwPlanned /\ fwpc = "create") =>
        LET cur == Range(InstanceRulesOf(fwCurrent))
            des == Range(InstanceRulesOf(fwDesired))
        IN  /\ Range(fwChanges.Set) = des \ cur
            /\ Range(fwChanges.Unset) = cur \ des
            /\ Len(fwChanges.Set) = Cardinality(des \ cur)
            /\ Len(fwChanges.Unset) = Cardinality(cur \ des)

(***************************************************************************)
(* SpecEip: the ExtIP Plan.Calculate on every pair of ExtIP lists.         *)
(***************************************************************************)
MaxExtIPs == 2

\* the ExtIPs of two services: none, one, or two in both orders
EipPool ==
    {[SvcName |-> n, ExtIPs |-> ips] :
        n \in {"a", "b"},
        ips \in {<<>>, <<"172.16.0.1">>, <<"172.16.0.1", "172.16.0.2">>,
                 <<"172.16.0.2", "172.16.0.1">>}}

\* the lists are one ExtIP per service name: the provider builds one from
\* each service it lists, the source one from each service it works on
InitEip ==
    /\ DnsIdle
    /\ FwProviderIdle
    /\ dryRun \in BOOLEAN
    /\ eipCurrent \in {l \in SeqsUpTo(EipPool, MaxExtIPs) :
                          \A i, j \in 1..Len(l) : l[i].SvcName = l[j].SvcName => i = j}
    /\ eipDesired \in {l \in SeqsUpTo(EipPool, MaxExtIPs) :
                          \A i, j \in 1..Len(l) : l[i].SvcName = l[j].SvcName => i = j}
    /\ eipChanges = [UpdateNew |-> <<>>, UpdateOld |-> <<>>]
    /\ eippc = "read"
    \* ExtIPs(): the current list is read off the services of the cluster
    /\ services = [i \in 1..Len(eipCurrent) |->
                      [Name |-> eipCurrent[i].SvcName, Hostname |-> <<>>,
                       Selector |-> "", MaxIPs |-> 0, TTL |-> 0,
                       Controller |-> "", Malformed |-> {}, Ports |-> <<>>,
                       ExternalIPs |-> eipCurrent[i].ExtIPs]]
    /\ nodes = <<>>
    /\ calls = <<>>
    /\ runErr = ""
    /\ runpc = "idle"
    /\ stopChan = ""
    /\ logged = <<>>

\* eipplan.Calculate()
EipPlanCalculate ==
    /\ eippc = "read"
    /\ eipChanges' \in EipCalculate(eipCurrent, eipDesired)
    /\ eippc' = "planned"
    /\ UNCHANGED <<eipCurrent, eipDesired, dnsVars, fwVars, ctlVars>>

\* ProviderImpl.ApplyChanges: for each UpdateNew the service is read, its
\* ExternalIPs are set on the copy read, and without dry-run the copy is
\* written back; the first error of a call is returned
EipApplyChanges ==
    /\ eippc = "planned"
    /\ LET U == eipChanges.UpdateNew
           item(i, err) ==
               IF dryRun THEN <<Call("Services.Get", U[i].SvcName, "")>>
               ELSE <<Call("Services.Get", U[i].SvcName, ""),
                      Call("Services.Update", U[i].SvcName, err)>>
           RECURSIVE upto(_)
           upto(n) == IF n = 0 THEN <<>> ELSE upto(n - 1) \o item(n, "")
           applied(n) ==
               IF dryRun THEN services
               ELSE [i \in 1..Len(services) |->
                        IF \E j \in 1..n : U[j].SvcName = services[i].Name
                        THEN [services[i] EXCEPT !.ExternalIPs =
                                 U[CHOOSE j \in 1..n :
                                       U[j].SvcName = services[i].Name].ExtIPs]
                        ELSE services[i]]
       IN  \/ \* Services.Get fails for the n-th change
              \E n \in 1..Len(U) :
                  /\ calls' = calls \o upto(n - 1)
                                   \o <<Call("Services.Get", U[n].SvcName, "extip")>>
                  /\ services' = applied(n - 1)
                  /\ eippc' = "failed"
           \/ \* Services.Update fails for the n-th change
              \E n \in 1..Len(U) :
                  /\ ~dryRun
                  /\ calls' = calls \o upto(n - 1) \o item(n, "extip")
                  /\ services' = applied(n - 1)
                  /\ eippc' = "failed"
           \/ /\ calls' = calls \o upto(Len(U))
              /\ services' = applied(Len(U))
              /\ eippc' = "applied"
    /\ UNCHANGED <<eipCurrent, eipDesired, eipChanges, dnsVars, fwVars,
                   nodes, runErr, runpc, stopChan, logged>>

NextEip ==
    \/ EipPlanCalculate
    \/ EipApplyChanges

SpecEip == InitEip /\ [][NextEip]_vars

(***************************************************************************)
(* Claims about the ExtIP Plan.Calculate (SpecEip).                        *)
(***************************************************************************)
\* C17 as stated: for a service in the current list and not in the desired
\* list the plan holds a pair whose UpdateOld is the current value and whose
\* UpdateNew has the service's name and no ExtIPs.
C17_ClearAnyCurrent ==
    eippc = "planned" =>
        \A cur \in Range(eipCurrent) :
            (\A des \in Range(eipDesired) : des.SvcName # cur.SvcName) =>
                \E i \in 1..Len(eipChanges.UpdateOld) :
                    /\ i <= Len(eipChanges.UpdateNew)
                    /\ eipChanges.UpdateOld[i] = cur
                    /\ eipChanges.UpdateNew[i] = [SvcName |-> cur.SvcName,
                                                  ExtIPs |-> <<>>]

\* C17 amended: the same for a service whose current ExtIPs are not empty;
\* for one whose current ExtIPs are empty the plan holds no pair.
C17_ClearCurrent ==
    eippc = "planned" =>
        \A cur \in Range(eipCurrent) :
            (\A des \in Range(eipDesired) : des.SvcName # cur.SvcName) =>
                IF cur.ExtIPs # <<>>
                THEN \E i \in 1..Len(eipChanges.UpdateOld) :
                         /\ i <= Len(eipChanges.UpdateNew)
                         /\ eipChanges.UpdateOld[i] = cur
                         /\ eipChanges.UpdateNew[i] = [SvcName |-> cur.SvcName,
                                                       ExtIPs |-> <<>>]
                ELSE \A i \in 1..Len(eipChanges.UpdateOld) :
                         eipChanges.UpdateOld[i].SvcName # cur.SvcName

\* C17 witness: a plan for a current service with ExtIPs that no desired
\* ExtIP names, next to a service that is in both lists.
C17_Witness ==
    /\ eippc = "planned"
    /\ Len(eipCurrent) = 2
    /\ Len(eipDesired) = 1
    /\ \E cur \in Range(eipCurrent) :
           /\ cur.SvcName # eipDesired[1].SvcName
           /\ cur.ExtIPs # <<>>
           /\ \E i \in 1..Len(eipChanges.UpdateNew) :
                  /\ eipChanges.UpdateOld[i] = cur
                  /\ eipChanges.UpdateNew[i].ExtIPs = <<>>

\* C18: for a service in both lists the plan holds a pair (UpdateOld the
\* current, UpdateNew the desired value) iff the two ExtIPs lists differ as
\* collections, whatever their order; current = desired gives no updates.
C18_EipUpdateIff ==
    eippc = "planned" =>
        /\ \A cur \in Range(eipCurrent), des \in Range(eipDesired) :
               cur.SvcName = des.SvcName =>
                   ((\E i \in 1..Len(eipChanges.UpdateOld) :
                         /\ i <= Len(eipChanges.UpdateNew)
                         /\ eipChanges.UpdateOld[i] = cur
                         /\ eipChanges.UpdateNew[i] = des)
                    <=> ~SamePermuted(cur.ExtIPs, des.ExtIPs))
        /\ eipDesired = eipCurrent =>
               eipChanges = [UpdateNew |-> <<>>, UpdateOld |-> <<>>]

\* C18 witness: a service is in both lists with the same two ExtIPs in
\* different orders, and the plan holds no pair for it.
C18_Witness ==
    /\ eippc = "planned"
    /\ \E cur \in Range(eipCurrent), des \in Range(eipDesired) :
           /\ cur.SvcName = des.SvcName
           /\ cur.ExtIPs # des.ExtIPs
           /\ SamePermuted(cur.ExtIPs, des.ExtIPs)
           /\ \A i \in 1..Len(eipChanges.UpdateOld) :
                  eipChanges.UpdateOld[i].SvcName # cur.SvcName

\* C19: for a service in the desired list and not in the current list the
\* plan holds a pair whose UpdateNew is the desired value (and whose
\* UpdateOld is empty).
C19_DesiredOnlyUpdated ==
    eippc = "planned" =>
        \A des \in Range(eipDesired) :
            (\A cur \in Range(eipCurrent) : cur.SvcName # des.SvcName) =>
                \E i \in 1..Len(eipChanges.UpdateNew) :
                    eipChanges.UpdateNew[i] = des

(***************************************************************************)
(* SpecTXT: ticks of Records, Plan.Calculate and ApplyChanges through the  *)
(* TXT registry, the zone and the desired endpoints changing between the   *)
(* ticks.                                                                  *)
(***************************************************************************)
MaxZone == 3
MaxTicks == 2

NameF == <<"f">>
NameB == <<"b">>
TxtPrefix == <<"t">>

\* the records of the zone: an A record per name, a TXT record that is no
\* heritage string, and heritage TXT records with and without the prefix
ZonePool ==
    { NewEndpoint(NameF, RecordTypeA, "10.0.0.1"),
      NewEndpoint(NameB, RecordTypeA, "10.0.0.2"),
      NewEndpoint(NameF, RecordTypeTXT, "v=spf1 -all"),
      NewEndpoint(NameF, RecordTypeTXT, Serialize(LabelsOf(OwnerMe, ResA))),
      NewEndpoint(TxtPrefix \o NameF, RecordTypeTXT,
                  Serialize(LabelsOf(OwnerMe, ResA))),
      NewEndpoint(TxtPrefix \o NameF, RecordTypeTXT,
                  Serialize(LabelsOf(OwnerOther, ResA))) }

\* a zone holds one record per name and type
Zones ==
    {z \in SeqsUpTo(ZonePool, MaxZone) :
        \A i, j \in 1..Len(z) :
            (z[i].DNSName = z[j].DNSName /\ z[i].RecordType = z[j].RecordType)
                => i = j}

\* the endpoints the source asks for
DesiredLists ==
    { <<>>,
      <<Endpoint(NameF, RecordTypeA, <<"10.0.0.1">>, 0, ResourceOnly(ResA))>>,
      <<Endpoint(NameF, RecordTypeA, <<"10.0.0.2">>, 0, ResourceOnly(ResA))>> }

InitTXT ==
    /\ zone \in Zones
    /\ prefix \in {<<>>, TxtPrefix}
    /\ cacheOn \in BOOLEAN
    /\ recordsCache = NilCache
    /\ records = <<>>
    /\ desired \in DesiredLists
    /\ policy \in Policies
    /\ dnsChanges = NoChanges
    /\ forwarded = <<>>
    /\ dnsErr = ""
    /\ tick = 1
    /\ dnspc = "start"
    /\ FwIdle
    /\ CtlIdle
    /\ EipIdle

\* Controller.Run: the next tick; the zone and the services have changed,
\* and the cache may have grown older than cacheInterval
NextTick ==
    /\ dnspc = "done"
    /\ tick < MaxTicks
    /\ tick' = tick + 1
    /\ zone' \in Zones
    /\ desired' \in DesiredLists
    /\ records' = <<>>
    /\ dnsChanges' = NoChanges
    /\ forwarded' = <<>>
    /\ dnsErr' = ""
    /\ dnspc' = "start"
    /\ \E young \in {recordsCache.fresh, FALSE} :
           recordsCache' = [recordsCache EXCEPT !.fresh = young]
    /\ calls' = <<>>
    /\ UNCHANGED <<prefix, cacheOn, policy, fwVars, services, nodes, runErr,
                   runpc, stopChan, logged, eipVars>>

NextTXT ==
    \/ TXTRecords
    \/ DnsCalculate
    \/ TXTApplyChanges
    \/ NextTick

SpecTXT == InitTXT /\ [][NextTXT]_vars

(***************************************************************************)
(* Claims about the TXT registry (SpecTXT).                                *)
(***************************************************************************)
Owned(e) ==
    OwnerLabelKey \in DOMAIN e.Labels /\ e.Labels[OwnerLabelKey] = OwnerMe

\* every record of the list is owned, or is the TXT record built for an owned
\* record of the list
OwnedOrPaired(eps) ==
    \A i \in 1..Len(eps) :
        \/ Owned(eps[i])
        \/ \E j \in 1..Len(eps) :
               Owned(eps[j]) /\ eps[i] = TXTFor(prefix, eps[j])

\* C5: in every ApplyChanges call of the TXT registry each record handed to
\* the provider in Delete, UpdateOld or UpdateNew is owned by this instance or
\* is the TXT record built for such a record; the records of other owners or
\* of none are left out without an error of the registry's own; and every
\* record of Create is handed over.
C5_OwnershipGate ==
    forwarded # <<>> =>
        LET out == forwarded[1].changes
        IN  /\ OwnedOrPaired(out.Delete)
            /\ OwnedOrPaired(out.UpdateOld)
            /\ OwnedOrPaired(out.UpdateNew)
            /\ dnsErr = forwarded[1].err
            /\ Len(out.Create) = 2 * Len(dnsChanges.Create)
            /\ \A i \in 1..Len(dnsChanges.Create) :
                   /\ out.Create[i].DNSName = dnsChanges.Create[i].DNSName
                   /\ out.Create[i].Targets = dnsChanges.Create[i].Targets

\* C5 witness: an ApplyChanges whose plan deletes a record of no owner and a
\* record of this instance, and creates nothing less than planned: the first
\* is left out, the second is handed over with its TXT record, no error.
C5_Witness ==
    /\ forwarded # <<>>
    /\ dnsErr = ""
    /\ \E i \in 1..Len(dnsChanges.Delete) : ~Owned(dnsChanges.Delete[i])
    /\ \E i \in 1..Len(dnsChanges.Delete) : Owned(dnsChanges.Delete[i])
    /\ Len(forwarded[1].changes.Delete) = 2

\* a TXT record whose value is no heritage string
IsOpaqueTXT(e) ==
    e.RecordType = RecordTypeTXT /\ NewLabelsFromString(e.Targets[1]) = <<>>

\* C6: a TXT record whose value is no valid heritage string comes out of
\* Records() with empty labels, and in no tick is a Delete of it handed to
\* the provider.
C6_OpaqueNeverDeleted ==
    /\ dnspc \in {"read", "planned"} =>
           \A i \in 1..Len(records) :
               IsOpaqueTXT(records[i]) => records[i].Labels = NewLabels
    /\ forwarded # <<>> =>
           \A i \in 1..Len(forwarded[1].changes.Delete) :
               ~IsOpaqueTXT(forwarded[1].changes.Delete[i])

(***************************************************************************)
(* Spec: Controller.Run, tick after tick of RunOnce against its ports.     *)
(***************************************************************************)
MaxServices == 2
MaxNodes == 2

\* the services of the controller's cluster: with and without hostname
\* annotation, with spec.externalIPs empty and already set
ServicePool ==
    { [Name |-> "a", Hostname |-> <<<<"f">>>>, Selector |-> "", MaxIPs |-> 0,
       TTL |-> 0, Controller |-> "", Malformed |-> {},
       Ports |-> <<InboundRule("tcp", 80)>>, ExternalIPs |-> <<>>],
      [Name |-> "a", Hostname |-> <<<<"f">>>>, Selector |-> "", MaxIPs |-> 0,
       TTL |-> 0, Controller |-> "", Malformed |-> {},
       Ports |-> <<InboundRule("tcp", 80)>>, ExternalIPs |-> <<"172.16.0.1">>],
      [Name |-> "b", Hostname |-> <<<<"b", ".">>>>, Selector |-> "", MaxIPs |-> 1,
       TTL |-> 300, Controller |-> "", Malformed |-> {},
       Ports |-> <<InboundRule("udp", 53)>>, ExternalIPs |-> <<>>],
      [Name |-> "n", Hostname |-> <<>>, Selector |-> "", MaxIPs |-> 0,
       TTL |-> 0, Controller |-> "", Malformed |-> {},
       Ports |-> <<InboundRule("tcp", 80)>>, ExternalIPs |-> <<>>] }

\* the nodes of the controller's cluster
NodePool ==
    { [Created |-> 1, InternalIP |-> "172.16.0.1", ExternalIP |-> "10.0.0.1",
       ProviderID |-> "i-1", Group |-> "g"],
      [Created |-> 2, InternalIP |-> "172.16.0.2", ExternalIP |-> "10.0.0.2",
       ProviderID |-> "i-1a", Group |-> ""] }

Init ==
    /\ RegistryIdle
    /\ records = <<>>
    /\ desired = <<>>
    /\ policy \in Policies
    /\ dnsChanges = NoChanges
    /\ dnsErr = ""
    /\ tick = 1
    /\ dnspc = "idle"
    /\ FwProviderIdle
    /\ dryRun \in BOOLEAN
    \* the lists of a cluster: one object per name
    /\ services \in {l \in SeqsUpTo(ServicePool, MaxServices) :
                         \A i, j \in 1..Len(l) : l[i].Name = l[j].Name => i = j}
    /\ nodes \in {l \in SeqsUpTo(NodePool, MaxNodes) :
                      \A i, j \in 1..Len(l) : l[i] = l[j] => i = j}
    /\ calls = <<>>
    /\ runErr = ""
    /\ runpc = "records"
    /\ stopChan = ""
    /\ logged = <<>>
    /\ EipIdle

\* a Run whose loop goes on only after a RunOnce without error
RunTickUnlessError ==
    /\ runpc = "done"
    /\ runErr = ""
    /\ tick < MaxTicks
    /\ tick' = tick + 1
    /\ runpc' = "records"
    /\ calls' = <<>>
    /\ runErr' = ""
    /\ logged' = logged
    /\ records' = <<>>
    /\ desired' = <<>>
    /\ dnsChanges' = NoChanges
    /\ fwCurrent' = <<>>
    /\ fwDesired' = <<>>
    /\ fwChanges' = NoFwChanges
    /\ UNCHANGED <<zone, prefix, cacheOn, recordsCache, policy, forwarded,
                   dnsErr, dnspc, fwPlanned, sgroups, sgBound, fwOps, fwpc,
                   fwIdx, fwErr, dryRun, services, nodes, stopChan,
                   eipVars>>

\* Controller.Run: RunOnce has returned (its error is logged), the ticker
\* fires, RunOnce is called again
RunTick ==
    /\ runpc = "done"
    /\ tick < MaxTicks
    /\ tick' = tick + 1
    /\ runpc' = "records"
    /\ calls' = <<>>
    /\ runErr' = ""
    /\ logged' = IF runErr # "" THEN Append(logged, runErr) ELSE logged
    /\ records' = <<>>
    /\ desired' = <<>>
    /\ dnsChanges' = NoChanges
    /\ fwCurrent' = <<>>
    /\ fwDesired' = <<>>
    /\ fwChanges' = NoFwChanges
    /\ UNCHANGED <<zone, prefix, cacheOn, recordsCache, policy, forwarded,
                   dnsErr, dnspc, fwPlanned, sgroups, sgBound, fwOps, fwpc,
                   fwIdx, fwErr, dryRun, services, nodes, stopChan,
                   eipVars>>

Next ==
    \/ RunRecords
    \/ RunRules
    \/ RunSource
    \/ RunFwApply
    \/ RunDnsApply
    \/ RunTick

Spec == Init /\ [][Next]_vars

(***************************************************************************)
(* Controller.Run with the signal handler: handleSigterm closes stopChan,  *)
(* the select of Run reads it.                                             *)
(***************************************************************************)
\* handleSigterm: SIGTERM arrives, close(stopChan)
handleSigterm ==
    /\ stopChan = ""
    /\ runpc \notin {"idle", "returned"}
    /\ stopChan' = runpc
    /\ UNCHANGED <<dnsVars, fwVars, eipVars, services, nodes, calls, runErr,
                   runpc, logged>>

\* a Run whose loop looks at stopChan before every statement of RunOnce
RunStopAnywhere ==
    /\ runpc \notin {"idle", "returned"}
    /\ stopChan # ""
    /\ runpc' = "returned"
    /\ logged' = IF runErr # "" THEN Append(logged, runErr) ELSE logged
    /\ UNCHANGED <<dnsVars, fwVars, eipVars, services, nodes, calls, runErr,
                   stopChan>>

\* a Run whose select has no return in its case <-stopChan: the loop goes on
RunStopNoReturn ==
    /\ runpc = "done"
    /\ stopChan # ""
    /\ runpc' = "records"
    /\ calls' = <<>>
    /\ runErr' = ""
    /\ UNCHANGED <<dnsVars, fwVars, eipVars, services, nodes, stopChan, logged>>

\* Controller.Run: RunOnce has returned (its error is logged), the select
\* takes case <-stopChan and Run returns
RunStop ==
    /\ runpc = "done"
    /\ stopChan # ""
    /\ runpc' = "returned"
    /\ logged' = IF runErr # "" THEN Append(logged, runErr) ELSE logged
    /\ UNCHANGED <<dnsVars, fwVars, eipVars, services, nodes, calls, runErr,
                   stopChan>>


\* a controller over at most one service and one node
InitRun ==
    /\ Init
    /\ Len(services) <= 1
    /\ Len(nodes) <= 1

NextRun ==
    \/ Next
    \/ handleSigterm
    \/ RunStop

SpecRun == InitRun /\ [][NextRun]_vars

\* the ticker fires again and again: a Run waiting in its select gets to
\* take case <-ticker.C
LiveRun == SpecRun /\ WF_vars(RunTick)

(***************************************************************************)
(* The source alone: one call of ExternalIPSetting over clusters whose     *)
(* services carry every kind of annotation value, among three nodes.       *)
(***************************************************************************)
MaxSrcNodes == 3

InitSource ==
    LET a == [Name |-> "a", Hostname |-> <<<<"f">>>>, Selector |-> "",
              MaxIPs |-> 0, TTL |-> 0, Controller |-> "", Malformed |-> {},
              Ports |-> <<InboundRule("tcp", 80)>>, ExternalIPs |-> <<>>]
        annotated ==
            { \* a hostname annotation whose value is one blank
              [a EXCEPT !.Name = "e", !.Hostname = <<<<" ">>>>],
              \* another controller's service
              [a EXCEPT !.Name = "x", !.Controller = "other"],
              \* annotations whose value does not parse
              [a EXCEPT !.Name = "m", !.Malformed = {"maxips"}],
              [a EXCEPT !.Name = "s", !.Malformed = {"selector"}],
              [a EXCEPT !.Name = "t", !.Malformed = {"ttl"}],
              \* a ttl below ttlMinimum
              [a EXCEPT !.Name = "u", !.TTL = -1],
              \* two hostnames, a selector and a cap
              [a EXCEPT !.Name = "g", !.Hostname = <<<<"f", ",", "b">>>>,
                        !.Selector = "g", !.MaxIPs = 1],
              [a EXCEPT !.Name = "h", !.Selector = "g", !.MaxIPs = 2] }
        third == [Created |-> 3, InternalIP |-> "172.16.0.3",
                  ExternalIP |-> "10.0.0.3", ProviderID |-> "i-3", Group |-> "g"]
    IN  /\ DnsIdle
        /\ FwProviderIdle
        /\ EipIdle
        /\ dryRun \in BOOLEAN
        /\ services \in {l \in SeqsUpTo(ServicePool \cup annotated, MaxServices) :
                             \A i, j \in 1..Len(l) : l[i].Name = l[j].Name => i = j}
        /\ nodes \in {l \in SeqsUpTo(NodePool \cup {third}, MaxSrcNodes) :
                          \A i, j \in 1..Len(l) : l[i] = l[j] => i = j}
        /\ calls = <<>>
        /\ runErr = ""
        /\ runpc = "source"
        /\ stopChan = ""
        /\ logged = <<>>

SpecSource == InitSource /\ [][RunSource]_vars

(***************************************************************************)
(* The three places that write to the cloud or the cluster, each from its  *)
(* own initial states: the firewall provider, the source, the ExtIP        *)
(* provider.                                                               *)
(***************************************************************************)
InitDryRun == InitFw \/ InitSource \/ InitEip

SpecDryRun == InitDryRun /\ [][NextFw \/ RunSource \/ NextEip]_vars

(***************************************************************************)
(* Claims about Controller.RunOnce (Spec).                                 *)
(***************************************************************************)
ApplyCalls ==
    {"FwRegistry.ApplyChanges", "EipRegistry.ApplyChanges", "Registry.ApplyChanges"}

ReadCalls == {"Registry.Records", "FwRegistry.Rules", "EipRegistry.ExtIPs",
              "Source.ExternalIPSetting"}

\* the apply calls of the tick, in the order they were made
AppliesMade ==
    LET made == Filter(calls, [i \in 1..Len(calls) |-> calls[i].call \in ApplyCalls])
    IN  [i \in 1..Len(made) |-> made[i].call]

\* C1: within one RunOnce the applies are made in the order firewall, ExtIP,
\* DNS, each after the one before has returned: the applies made so far are a
\* beginning of that list, and a RunOnce that returned nil has made all three.
C1_ApplyOrder ==
    LET order == <<"FwRegistry.ApplyChanges", "EipRegistry.ApplyChanges",
                   "Registry.ApplyChanges">>
    IN  /\ Len(AppliesMade) <= 3
        /\ AppliesMade = SubSeq(order, 1, Len(AppliesMade))
        /\ (runpc = "done" /\ runErr = "") => AppliesMade = order

\* C2: when a read of RunOnce (Records, Rules, ExtIPs, the source) returned
\* an error, RunOnce has returned that error and no ApplyChanges was called;
\* when an apply returned an error, RunOnce has returned that error and no
\* apply was called after it.
C2_FailFast ==
    \A i \in 1..Len(calls) :
        /\ (calls[i].call \in ReadCalls /\ calls[i].err # "") =>
               /\ runpc = "done"
               /\ runErr = calls[i].err
               /\ AppliesMade = <<>>
        /\ (calls[i].call \in ApplyCalls /\ calls[i].err # "") =>
               /\ runpc = "done"
               /\ runErr = calls[i].err
               /\ \A j \in 1..Len(calls) : j > i => calls[j].call \notin ApplyCalls

\* C2 witness: the three reads succeeded, the firewall apply returned an
\* error, and RunOnce returned it without a DNS apply.
C2_Witness ==
    /\ runpc = "done"
    /\ runErr = "fwapply"
    /\ \E i \in 1..Len(calls) :
           calls[i].call = "FwRegistry.ApplyChanges" /\ calls[i].err = "fwapply"
    /\ \E i \in 1..Len(calls) : calls[i].call = "Services.Update"

\* C8: within a tick a service's spec.externalIPs is written only after the
\* firewall change-set of the tick has been applied.
C8_ServiceWriteAfterFirewall ==
    \A i \in 1..Len(calls) :
        calls[i].call = "Services.Update" =>
            \E j \in 1..(i - 1) : calls[j].call = "FwRegistry.ApplyChanges"

\* C20: after ExternalIPSetting returned, every service with a hostname
\* annotation has, from the one set of nodes selected for it, an endpoint per
\* hostname whose targets are those nodes' external IPs, one rule-set whose
\* providerIds are their provider ids, and one ExtIP whose extIPs are their
\* internal IPs.
C20_OneNodeSet ==
    runpc = "fwapply" =>
        \A svc \in Range(services) :
            Len(getHostnamesFromAnnotations(svc)) > 0 =>
                LET info == extractNodeInfo(svc,
                                SortedBy(nodes, [i \in 1..Len(nodes) |->
                                                    nodes[i].Created]))
                IN  /\ \A h \in Range(getHostnamesFromAnnotations(svc)) :
                           \E e \in Range(desired) :
                               /\ (e.DNSName = h \/ e.DNSName \o <<".">> = h)
                               /\ SamePermuted(e.Targets, info.externalIPs)
                    /\ \E i \in 1..Len(fwDesired) :
                           /\ fwDesired[i].Name = svc.Name \o "." \o ClusterName
                           /\ fwDesired[i].ProviderIDs = info.providerIDs
                           /\ \A j \in 1..Len(fwDesired) :
                                  fwDesired[j].Name = fwDesired[i].Name => j = i
                    /\ \E i \in 1..Len(eipDesired) :
                           /\ eipDesired[i].SvcName = svc.Name
                           /\ SamePermuted(eipDesired[i].ExtIPs, info.internalIPs)
                           /\ \A j \in 1..Len(eipDesired) :
                                  eipDesired[j].SvcName = svc.Name => j = i

(***************************************************************************)
(* Claims about the source.                                                *)
(***************************************************************************)
\* the nodes in ascending creation time
ByCreation == SortedBy(nodes, [i \in 1..Len(nodes) |-> nodes[i].Created])

\* the first maxips nodes, in the order of ns, among those the selector of
\* svc matches; all of them without maxips
FirstMatching(svc, ns) ==
    LET match == {i \in 1..Len(ns) :
                     svc.Selector = "" \/ ns[i].Group = svc.Selector}
    IN  Filter(ns, [i \in 1..Len(ns) |->
                      /\ i \in match
                      /\ \/ svc.MaxIPs <= 0
                         \/ Cardinality({j \in match : j < i}) < svc.MaxIPs])

\* C21: after ExternalIPSetting returned without error, the rule-set and the
\* endpoints of every service with hostnames are built from exactly the
\* first min(maxips, k) of the k nodes its selector matches, in ascending
\* creation time, and from all k when maxips is 0 or absent.
C21_FirstMatchingNodes ==
    (runpc = "fwapply" /\ runErr = "") =>
        \A svc \in Range(services) :
            Len(getHostnamesFromAnnotations(svc)) > 0 =>
                LET sel == FirstMatching(svc, ByCreation)
                IN  /\ \E i \in 1..Len(fwDesired) :
                           /\ fwDesired[i].Name = svc.Name \o "." \o ClusterName
                           /\ fwDesired[i].ProviderIDs =
                                  [j \in 1..Len(sel) |-> sel[j].ProviderID]
                    /\ \A h \in Range(getHostnamesFromAnnotations(svc)) :
                           \E e \in Range(desired) :
                               /\ (e.DNSName = h \/ e.DNSName \o <<".">> = h)
                               /\ SamePermuted(e.Targets,
                                      [j \in 1..Len(sel) |-> sel[j].ExternalIP])

\* a capped service whose selector passes over the oldest node: the node
\* taken is a younger one
C21_Witness ==
    /\ runpc = "fwapply"
    /\ runErr = ""
    /\ Len(services) = 1
    /\ services[1].Selector = "g"
    /\ services[1].MaxIPs = 1
    /\ Len(ByCreation) = 2
    /\ ByCreation[1].Group = ""
    /\ Len(fwDesired) = 1
    /\ fwDesired[1].ProviderIDs = <<ByCreation[2].ProviderID>>
    /\ \E e \in Range(desired) : e.Targets = <<ByCreation[2].ExternalIP>>


\* C22: every endpoint of the setting ExternalIPSetting returned carries the
\* resource label service/<namespace>/<name> of a service that has the
\* endpoint's name among its hostnames.
C22_ResourceLabel ==
    (runpc = "fwapply" /\ runErr = "") =>
        \A e \in Range(desired) :
            \E svc \in Range(services) :
                /\ \E h \in Range(getHostnamesFromAnnotations(svc)) :
                       e.DNSName = h \/ e.DNSName \o <<".">> = h
                /\ Label(e.Labels, ResourceLabelKey) =
                       "service/default/" \o svc.Name


\* C23: a service whose controller annotation is present with a value other
\* than dns-controller is not processed: after ExternalIPSetting returned
\* there is no rule-set and no ServiceExtIP of it, no endpoint for a
\* hostname that only it asks for, and no Services.Update call was made
\* for it.
C23_OtherControllerSkipped ==
    runpc # "source" =>
        \A svc \in Range(services) :
            svc.Controller \notin {"", "dns-controller"} =>
                /\ \A i \in 1..Len(fwDesired) :
                       fwDesired[i].Name # svc.Name \o "." \o ClusterName
                /\ \A i \in 1..Len(eipDesired) : eipDesired[i].SvcName # svc.Name
                /\ \A e \in Range(desired) :
                       \E o \in Range(services) :
                           /\ o.Name # svc.Name
                           /\ \E h \in Range(getHostnamesFromAnnotations(o)) :
                                  e.DNSName = h \/ e.DNSName \o <<".">> = h
                /\ \A i \in 1..Len(calls) :
                       ~(calls[i].call = "Services.Update" /\ calls[i].arg = svc.Name)


\* C24: ExternalIPSetting never returns the error of an annotation that
\* does not parse, and when it returned without error the setting holds the
\* rule-set and the endpoints of every service with hostnames, those next
\* to a service with a malformed selector, maxips or ttl annotation too.
C24_MalformedTolerated ==
    runpc # "source" =>
        /\ runErr # "annotation"
        /\ runErr = "" =>
               \A svc \in Range(services) :
                   Len(getHostnamesFromAnnotations(svc)) > 0 =>
                       /\ \E i \in 1..Len(fwDesired) :
                              fwDesired[i].Name = svc.Name \o "." \o ClusterName
                       /\ \A h \in Range(getHostnamesFromAnnotations(svc)) :
                              \E e \in Range(desired) :
                                  e.DNSName = h \/ e.DNSName \o <<".">> = h

\* the same where no selector and no maxips annotation is malformed
C24_TtlTolerated ==
    (\A svc \in Range(services) : svc.Malformed \subseteq {"ttl"})
        => C24_MalformedTolerated


\* C25: after ExternalIPSetting returned without error, a service whose ttl
\* annotation does not parse or lies outside [1, 2^32 - 1] has no endpoint
\* (none for a hostname only it asks for), and every endpoint for a hostname
\* of a service with a ttl inside the range carries that ttl or the ttl of
\* another service with the same hostname.
C25_TtlFatalOrUnchanged ==
    (runpc = "fwapply" /\ runErr = "") =>
        \A svc \in Range(services) :
            /\ ("ttl" \in svc.Malformed \/ svc.TTL < 0) =>
                   \A e \in Range(desired) :
                       \E o \in Range(services) :
                           /\ o.Name # svc.Name
                           /\ \E h \in Range(getHostnamesFromAnnotations(o)) :
                                  e.DNSName = h \/ e.DNSName \o <<".">> = h
            /\ ("ttl" \notin svc.Malformed /\ svc.TTL >= 1) =>
                   \A h \in Range(getHostnamesFromAnnotations(svc)) :
                       \E e \in Range(desired) :
                           /\ (e.DNSName = h \/ e.DNSName \o <<".">> = h)
                           /\ e.RecordTTL = svc.TTL

\* the second half of C25 alone: a ttl inside the range is emitted unchanged
C25_TtlUnchanged ==
    (runpc = "fwapply" /\ runErr = "") =>
        \A svc \in Range(services) :
            ("ttl" \notin svc.Malformed /\ svc.TTL >= 1) =>
                \A h \in Range(getHostnamesFromAnnotations(svc)) :
                    \E e \in Range(desired) :
                        /\ (e.DNSName = h \/ e.DNSName \o <<".">> = h)
                        /\ e.RecordTTL = svc.TTL


\* C27: a service whose hostname annotation is absent, or present without
\* any non-empty hostname in it, has after ExternalIPSetting no rule-set and
\* no ServiceExtIP, no Services.Update call was made for it, and the
\* setting holds no endpoint with an empty name.
C27_NoHostnameNoOutput ==
    runpc # "source" =>
        \A svc \in Range(services) :
            (\A h \in Range(getHostnamesFromAnnotations(svc)) : h = <<>>) =>
                /\ \A i \in 1..Len(fwDesired) :
                       fwDesired[i].Name # svc.Name \o "." \o ClusterName
                /\ \A i \in 1..Len(eipDesired) : eipDesired[i].SvcName # svc.Name
                /\ \A e \in Range(desired) : e.DNSName # <<>>
                /\ \A i \in 1..Len(calls) :
                       ~(calls[i].call = "Services.Update" /\ calls[i].arg = svc.Name)

\* C27 for the services without hostname annotation alone
C27_AbsentNoOutput ==
    runpc # "source" =>
        \A svc \in Range(services) :
            svc.Hostname = <<>> =>
                /\ \A i \in 1..Len(fwDesired) :
                       fwDesired[i].Name # svc.Name \o "." \o ClusterName
                /\ \A i \in 1..Len(calls) :
                       ~(calls[i].call = "Services.Update" /\ calls[i].arg = svc.Name)


\* C26: with dry-run enabled no step of the firewall provider, of the ExtIP
\* provider or of the source changes the security groups, their bindings to
\* instances or the services of the cluster, no Services.Update call is
\* made, and the firewall provider's create step, which reads nothing,
\* cannot fail.
C26_DryRunNoMutation ==
    [][dryRun =>
          /\ sgroups' = sgroups
          /\ sgBound' = sgBound
          /\ services' = services
          /\ \A i \in 1..Len(calls') : calls'[i].call # "Services.Update"
          /\ fwpc = "create" => ~fwErr']_vars

\* a dry run of the firewall provider that walked creates and deletes to
\* the end
C26_Witness ==
    /\ dryRun
    /\ fwpc = "done"
    /\ ~fwErr
    /\ OpsOfKind("create") # {}
    /\ OpsOfKind("delete") # {}
    /\ OpsOfKind("set") # {}

\* a dry run of the source over a service whose externalIPs differ from its
\* nodes' addresses
C26_WitnessSource ==
    /\ dryRun
    /\ runpc = "fwapply"
    /\ runErr = ""
    /\ \E svc \in Range(services) :
           /\ Len(getHostnamesFromAnnotations(svc)) > 0
           /\ ~equalIPs(svc.ExternalIPs,
                        extractNodeInfo(svc, ByCreation).internalIPs)

\* a dry run of the ExtIP provider over a plan with updates: the services
\* were read
C26_WitnessExtIP ==
    /\ dryRun
    /\ eippc = "applied"
    /\ Len(eipChanges.UpdateNew) = 2
    /\ Len(calls) = 2


(***************************************************************************)
(* The TXT records the registry adds to the changes.                       *)
(***************************************************************************)
\* the list handed to the provider is kept records followed by one TXT
\* record each, in the same order, named with the prefix before the
\* record's name
PairedWithTXT(sent, kept) ==
    /\ Len(sent) = 2 * kept
    /\ \A i \in 1..kept :
           /\ sent[kept + i].RecordType = RecordTypeTXT
           /\ sent[kept + i].DNSName = prefix \o sent[i].DNSName

\* the records of the list this instance owns
OwnedIn(eps) == {i \in 1..Len(eps) : Owned(eps[i])}

\* C28: in the Changes that TXTRegistry.ApplyChanges hands to the provider,
\* each of Create, Delete, UpdateOld and UpdateNew holds the records left
\* after the ownership filter (all of Create) and exactly one TXT record at
\* the prefix-mapped name for each of them.
C28_OneTXTPerRecord ==
    forwarded # <<>> =>
        LET sent == forwarded[1].changes
        IN  /\ PairedWithTXT(sent.Create, Len(dnsChanges.Create))
            /\ PairedWithTXT(sent.Delete,
                             Cardinality(OwnedIn(dnsChanges.Delete)))
            /\ PairedWithTXT(sent.UpdateOld,
                             Cardinality(OwnedIn(dnsChanges.UpdateOld)))
            /\ PairedWithTXT(sent.UpdateNew,
                             Cardinality(OwnedIn(dnsChanges.UpdateNew)))

\* an ApplyChanges with a prefix whose plan deletes two records, the one of
\* another owner left out: one record and its TXT record are handed over
C28_Witness ==
    /\ forwarded # <<>>
    /\ prefix # <<>>
    /\ Len(dnsChanges.Delete) = 2
    /\ Len(forwarded[1].changes.Delete) = 2
    /\ forwarded[1].changes.Delete[2].RecordType = RecordTypeTXT

\* an ApplyChanges with a prefix whose plan creates a record
C28_WitnessCreate ==
    /\ forwarded # <<>>
    /\ prefix # <<>>
    /\ Len(forwarded[1].changes.Create) = 2

\* an ApplyChanges with a prefix whose plan updates a record
C28_WitnessUpdate ==
    /\ forwarded # <<>>
    /\ prefix # <<>>
    /\ Len(forwarded[1].changes.UpdateNew) = 2
    /\ Len(forwarded[1].changes.UpdateOld) = 2


(***************************************************************************)
(* Claims about Controller.Run.                                            *)
(***************************************************************************)
\* C29: when RunOnce has returned an error, Run logs it and leaves the
\* select only for the next RunOnce, or for its return when stopChan is
\* closed; and as long as ticks remain and stopChan is open at that moment,
\* RunOnce is called again (or Run returns on a stop that arrived
\* meanwhile).
C29_ErrorLoggedLoopGoesOn ==
    /\ [][(runpc = "done" /\ runErr # "" /\ runpc' # "done") =>
              /\ logged' = Append(logged, runErr)
              /\ runpc' = "returned" => stopChan # ""
              /\ runpc' # "returned" =>
                     runpc' = "records" /\ tick' = tick + 1]_vars
    /\ (runpc = "done" /\ runErr # "" /\ tick < MaxTicks /\ stopChan = "")
           ~> (runpc = "records" \/ runpc = "returned")

\* the second RunOnce has been called after the first returned an error,
\* which was logged
C29_Witness ==
    /\ tick = 2
    /\ runpc = "records"
    /\ stopChan = ""
    /\ Len(logged) = 1

\* the statement of RunOnce after pc
NextStatement(pc) ==
    CASE pc = "records" -> "rules"
      [] pc = "rules" -> "source"
      [] pc = "source" -> "fwapply"
      [] pc = "fwapply" -> "dnsapply"
      [] OTHER -> "done"

\* C30: Run returns only from the select after a RunOnce, and only when
\* stopChan is closed; a RunOnce in progress goes, whatever stopChan, from
\* each statement to the next one until its last statement or its first
\* error; and a RunOnce begins only when the one before has returned.
C30_StopOnlyAtSelect ==
    [][/\ (runpc' = "returned" /\ runpc # "returned") =>
              (runpc = "done" /\ stopChan # "")
       /\ (runpc \notin {"done", "returned"} /\ runpc' # runpc) =>
              /\ tick' = tick
              /\ \/ runpc' = NextStatement(runpc) /\ runErr' = ""
                 \/ runpc' = "done" /\ runErr' # ""
       /\ tick' # tick => (runpc = "done" /\ runpc' = "records")]_vars

\* stopChan was closed while RunOnce was at its second statement; RunOnce
\* made all its calls without error, then Run returned
C30_Witness ==
    /\ runpc = "returned"
    /\ stopChan = "rules"
    /\ tick = 1
    /\ runErr = ""
    /\ Len(calls) > 0
    /\ calls[Len(calls)].call = "Registry.ApplyChanges"


(***************************************************************************)
(* Claims about the record cache of the TXT registry.                      *)
(***************************************************************************)
\* C31: a Records() call made with cacheInterval > 0 while the cache is set
\* and younger than cacheInterval returns the cached list and does not call
\* the provider; with cacheInterval = 0 every Records() call calls the
\* provider.
C31_CacheServesReads ==
    [][(dnspc = "start" /\ dnspc' # "start") =>
          /\ (cacheOn /\ recordsCache.set /\ recordsCache.fresh) =>
                 /\ records' = recordsCache.eps
                 /\ dnsErr' = ""
                 /\ calls' = calls
          /\ ~cacheOn =>
                 /\ Len(calls') = Len(calls) + 1
                 /\ calls'[Len(calls')].call = "provider.Records"]_vars

\* the second tick's Records() was served from the cache, without a call,
\* although the zone holds other records by now
C31_Witness ==
    /\ tick = 2
    /\ dnspc = "read"
    /\ cacheOn
    /\ calls = <<>>
    /\ records = recordsCache.eps
    /\ records # RecordsOf(zone, prefix)


\* a record by name, type and targets
RecordKey(e) == <<e.DNSName, e.RecordType, Range(e.Targets)>>

\* the records of the list that are no TXT records, by name, type, targets
NonTXTKeys(eps) ==
    {RecordKey(eps[i]) : i \in {j \in 1..Len(eps) : eps[j].RecordType # RecordTypeTXT}}

\* what a fresh read returns, TXT records aside, once a provider that held
\* the zone has applied the changes as they are: the old and the deleted
\* records are gone, the new and the created ones are there
FreshAfter(changes) ==
    (NonTXTKeys(RecordsOf(zone, prefix))
         \ (NonTXTKeys(changes.Delete) \cup NonTXTKeys(changes.UpdateOld)))
        \cup NonTXTKeys(changes.Create) \cup NonTXTKeys(changes.UpdateNew)

\* C32: with caching on, after an ApplyChanges that returned no error and
\* was planned from the records the zone holds, the cached list has, TXT
\* records aside, exactly the records (by name, type and targets) that a
\* fresh read returns from a provider that applied the forwarded changes.
C32_CacheFollowsChanges ==
    (/\ dnspc = "done" /\ forwarded # <<>> /\ dnsErr = ""
     /\ cacheOn /\ recordsCache.set
     /\ NonTXTKeys(records) = NonTXTKeys(RecordsOf(zone, prefix))) =>
        NonTXTKeys(recordsCache.eps) = FreshAfter(forwarded[1].changes)

\* C37: an ApplyChanges that returns the provider's error leaves the record
\* cache as it was before the call.
C37_FailedApplyKeepsCache ==
    [][(dnspc = "planned" /\ dnspc' = "done" /\ dnsErr' # "") =>
          recordsCache' = recordsCache]_vars

\* whether the ownership filter of ApplyChanges keeps the record
OwnedByMe(e) ==
    /\ OwnerLabelKey \in DOMAIN e.Labels
    /\ e.Labels[OwnerLabelKey] = OwnerMe

\* C38: for the changes of Plan.Calculate the ownership filter of
\* ApplyChanges keeps UpdateOld[i] exactly when it keeps UpdateNew[i]; the
\* forwarded UpdateOld and UpdateNew lists, before the TXT records appended
\* to them, have the same length and hold at each index a pair of the plan,
\* old and new record of one DNS name.
C38_UpdatePairsFilteredTogether ==
    (dnspc = "done" /\ forwarded # <<>>) =>
        LET old == forwarded[1].changes.UpdateOld
            new == forwarded[1].changes.UpdateNew
        IN  /\ Len(dnsChanges.UpdateOld) = Len(dnsChanges.UpdateNew)
            /\ \A i \in 1..Len(dnsChanges.UpdateOld) :
                   OwnedByMe(dnsChanges.UpdateOld[i])
                       <=> OwnedByMe(dnsChanges.UpdateNew[i])
            /\ Len(old) = Len(new)
            /\ \A i \in 1..(Len(old) \div 2) :
                   /\ sanitizeDNSName(old[i].DNSName) = sanitizeDNSName(new[i].DNSName)
                   /\ \E j \in 1..Len(dnsChanges.UpdateOld) :
                          /\ old[i] = dnsChanges.UpdateOld[j]
                          /\ new[i] = dnsChanges.UpdateNew[j]

\* the plan updates a record of this owner: the pair is forwarded, each
\* list with the TXT record appended to it
C38_Witness ==
    /\ dnspc = "done" /\ forwarded # <<>>
    /\ Len(dnsChanges.UpdateOld) = 1
    /\ Len(forwarded[1].changes.UpdateOld) = 2
    /\ Len(forwarded[1].changes.UpdateNew) = 2
    /\ forwarded[1].changes.UpdateNew[1] = dnsChanges.UpdateNew[1]
    /\ forwarded[1].changes.UpdateNew[1].RecordType # RecordTypeTXT

\* the plan updates a record of another owner: the pair is dropped
C38_WitnessDropped ==
    /\ dnspc = "done" /\ forwarded # <<>>
    /\ Len(dnsChanges.UpdateOld) = 1
    /\ ~OwnedByMe(dnsChanges.UpdateOld[1])
    /\ forwarded[1].changes.UpdateOld = <<>>
    /\ forwarded[1].changes.UpdateNew = <<>>

(***************************************************************************)
(* Further claims about the firewall plan and provider (SpecFw).           *)
(***************************************************************************)
\* C33: in the binding table of a Calculate, two bindings of the current or
\* the desired rule-sets that differ in the provider id or in the rule-set
\* name have different rows.
C33_OnePairPerRow ==
    (fwPlanned /\ fwpc # "read") =>
        \A a, b \in Range(InstanceRulesOf(fwCurrent))
                      \cup Range(InstanceRulesOf(fwDesired)) :
            <<a.ProviderID, a.RulesName>> # <<b.ProviderID, b.RulesName>>
                => planTable2Key(a) # planTable2Key(b)

\* C36: when ApplyChanges has returned, with or without an error, every
\* security group at EC2 carries the owned tag; the groups Rules() read at
\* the start of the tick carry it, so this is about the groups the call
\* created.
C36_CreatedGroupsTagged ==
    fwpc = "done" => \A n \in DOMAIN sgroups : sgroups[n].tagged

(***************************************************************************)
(* SpecRules: AWSProvider.Rules() over the security groups and instances   *)
(* of EC2, and the firewall plan computed from what it returned.           *)
(***************************************************************************)
MaxPerms == 2

\* the instances of the cluster, in the order getInstances returns them
Instances == <<FwNodeA, FwNodeB>>

\* the instances that have the group attached, in that order
attachedTo(bound, name) ==
    Filter(Instances, [i \in 1..Len(Instances) |-> <<Instances[i], name>> \in bound])

\* the loop of Rules() over one group: a rule per ingress permission, and
\* inside that loop the provider id of every instance with the group
rulesOfGroup(groups, bound, name) ==
    LET att == attachedTo(bound, name)
        n == Len(groups[name].perms) * Len(att)
    IN  InboundRules(name, groups[name].perms,
                     [k \in 1..n |-> att[((k - 1) % Len(att)) + 1]])

\* AWSProvider.Rules(): getInstances or DescribeSecurityGroups fails, or the
\* groups with the owned tag are listed in the order EC2 returns them
Rules ==
    /\ fwpc = "rules"
    /\ \/ /\ fwErr' = TRUE
          /\ fwpc' = "done"
          /\ UNCHANGED fwCurrent
       \/ /\ \E order \in Orders({n \in DOMAIN sgroups : sgroups[n].tagged}) :
                 fwCurrent' = [i \in 1..Len(order) |->
                                  rulesOfGroup(sgroups, sgBound, order[i])]
          /\ fwpc' = "read"
          /\ UNCHANGED fwErr
    /\ UNCHANGED <<fwDesired, fwChanges, fwPlanned, sgroups, sgBound, fwOps,
                   fwIdx, dryRun, dnsVars, ctlVars, eipVars>>

\* the ingress permissions a group can have: none, one, two
PermLists == {SubSeq(RulesHTTP \o RulesHTTPS, 1, n) : n \in 0..MaxPerms}

\* EC2: some of the two groups, each with its permissions and with or
\* without the owned tag, attached to some of the instances
InitRules ==
    /\ DnsIdle
    /\ CtlIdle
    /\ EipIdle
    /\ \E names \in SUBSET {FwNameA, FwNameB} :
           /\ sgroups \in [names -> [perms : PermLists, tagged : BOOLEAN]]
           /\ sgBound \in SUBSET (Range(Instances) \X names)
    /\ fwCurrent = <<>>
    /\ fwDesired \in {<<>>, <<InboundRules(FwNameA, RulesHTTP, <<FwNodeA>>)>>}
    /\ fwChanges = NoFwChanges
    /\ fwPlanned = TRUE
    /\ dryRun = FALSE
    /\ fwOps = <<>>
    /\ fwIdx = 1
    /\ fwErr = FALSE
    /\ fwpc = "rules"

NextRules ==
    \/ Rules
    \/ FwPlanCalculate

SpecRules == InitRules /\ [][NextRules]_vars

\* C39: the providerIds Rules() reports for an owned group are the
\* instances that have the group attached, each of them once, whatever the
\* number of ingress permissions of the group; and a Delete of the plan
\* computed from them comes with an Unset for every attached instance.
C39_RulesReportsAttached ==
    /\ (fwpc \in {"read", "create"}) =>
           \A i \in 1..Len(fwCurrent) :
               LET ids == fwCurrent[i].ProviderIDs
               IN  /\ Range(ids) = {id \in Range(Instances) :
                                       <<id, fwCurrent[i].Name>> \in sgBound}
                   /\ \A j, k \in 1..Len(ids) : ids[j] = ids[k] => j = k
    /\ fwpc = "create" =>
           \A d \in Range(fwChanges.Delete) :
               \A id \in Range(Instances) :
                   <<id, d.Name>> \in sgBound =>
                       \E u \in Range(fwChanges.Unset) :
                           u.ProviderID = id /\ u.RulesName = d.Name

\* the claim for the groups with exactly one ingress permission
C39_OnePermission ==
    (fwpc \in {"read", "create"}) =>
        \A i \in 1..Len(fwCurrent) :
            Len(fwCurrent[i].Rules) = 1 =>
                LET ids == fwCurrent[i].ProviderIDs
                IN  /\ Range(ids) = {id \in Range(Instances) :
                                        <<id, fwCurrent[i].Name>> \in sgBound}
                    /\ \A j, k \in 1..Len(ids) : ids[j] = ids[k] => j = k

(***************************************************************************)
(* Further claims about Controller.RunOnce and the source.                 *)
(***************************************************************************)
\* C34: when RunOnce returns the error of one of its three reads
\* (Registry.Records, FwRegistry.Rules, Source.ExternalIPSetting), the
\* services of the cluster are as they were before the read: no
\* Services.Update went through, and no ApplyChanges of the firewall or
\* the DNS registry was called in the tick.
C34_FailedReadChangesNothing ==
    [][(/\ runpc \in {"records", "rules", "source"}
        /\ runpc' = "done"
        /\ runErr' # "") =>
           /\ services' = services
           /\ \A i \in 1..Len(calls') :
                  /\ calls'[i].call \notin {"FwRegistry.ApplyChanges",
                                            "Registry.ApplyChanges"}
                  /\ calls'[i].call = "Services.Update" => calls'[i].err # ""]_vars

RunTickOn ==
    /\ runpc = "done"
    /\ tick = MaxTicks
    /\ runpc' = "records"
    /\ calls' = <<>>
    /\ runErr' = ""
    /\ records' = <<>>
    /\ desired' = <<>>
    /\ dnsChanges' = NoChanges
    /\ fwCurrent' = <<>>
    /\ fwDesired' = <<>>
    /\ fwChanges' = NoFwChanges
    /\ UNCHANGED <<zone, prefix, cacheOn, recordsCache, policy, forwarded,
                   dnsErr, tick, dnspc, fwPlanned, sgroups, sgBound, fwOps,
                   fwpc, fwIdx, fwErr, dryRun, services, nodes, stopChan,
                   logged, eipVars>>

\* a statement of RunOnce
RunOnceStep ==
    \/ RunRecords
    \/ RunRules
    \/ RunSource
    \/ RunFwApply
    \/ RunDnsApply

\* a cluster without nodes, with no service or with one that has no
\* hostname annotation
InitStop ==
    /\ InitRun
    /\ policy = "sync"
    /\ ~dryRun
    /\ nodes = <<>>
    /\ \A i \in 1..Len(services) : services[i].Name = "n"

NextStop ==
    \/ RunOnceStep
    \/ RunTick
    \/ RunTickOn
    \/ handleSigterm
    \/ RunStop

SpecStop == InitStop /\ [][NextStop]_vars

LiveStop == SpecStop /\ WF_vars(RunOnceStep) /\ SF_vars(RunStop)

\* C40: once stopChan is closed, Run returns, given that every RunOnce
\* returns and that the select is fair to its case <-stopChan, however
\* often the ticker has a tick pending.
C40_StopEndsRun == (stopChan # "") ~> (runpc = "returned")

\* stopChan was closed during the first RunOnce, the select still took the
\* ticker's case, and Run returned after a later RunOnce
C40_Witness ==
    /\ runpc = "returned"
    /\ stopChan \notin {"", "done"}
    /\ tick = MaxTicks

====
